---- MODULE Spec2Model ----
(***************************************************************************)
(* A model of the s7client session (S7Client): its closed flag, negotiated *)
(* PDU length and PDU reference counter, the read/write planners of        *)
(* s7_protocol/read_area.rs and s7_protocol/write_area.rs, the wire codec  *)
(* of the request items and data items, and a PLC that answers requests    *)
(* out of a byte memory.  One action is one public operation of S7Client.  *)
(***************************************************************************)
EXTENDS Integers, Sequences, FiniteSets, TLC

VARIABLES closed, pdu_length, pdu_number, mem, last, nReq

\* the pool's idle queue and cached negotiation, its sessions, the tasks that
\* call it, and the course of one S7Client::new call
VARIABLES pool, conns, tasks, created
\* the course of one exchange_buffer call on the byte stream, and a
\* TriggerCollection with the bits it observes
VARIABLES rx, trig
\* the encoding of one request item's address, and the responses that lie
\* unread in the byte stream of a session
VARIABLES enc, stream

\* the session of the single-session operations and the PLC it talks to
clientvars == <<closed, pdu_length, pdu_number, mem, last, nReq>>

poolvars == <<pool, conns, tasks>>

vars == <<closed, pdu_length, pdu_number, mem, last, nReq, pool, conns, tasks, created,
         rx, trig, enc, stream>>

(***************************************************************************)
(* Bounds of the model.                                                    *)
(***************************************************************************)
\* requests a behaviour may put on the wire before the operations stop
MaxReq == 3
\* longest single read the model issues
MaxLen == 9
\* bytes of the PLC's data block that exist (reads and writes beyond fail)
PlcSize == 26

(***************************************************************************)
(* Program constants.                                                      *)
(***************************************************************************)
READ_OPERATION == 4
WRITE_OPERATION == 5
SPEC_TYPE_READ_WRITE == 18
SYNTAX_ID_ANY_TYPE == 16
S7BIT == 1
S7BYTE == 2
S7COUNTER == 28
S7TIMER == 29
AreaProcessInput == 129
AreaProcessOutput == 130
AreaMerker == 131
AreaDataBlock == 132
TransportNull == 0
TransportBit == 3
TransportByte == 4
TransportInteger == 5
TransportReal == 7
TransportOctetString == 9
RequestItemLen == 12
DataItemHeaderLen == 4
ReadWriteParamsLen == 2
TTPKTHeaderLen == 4
\* S7ProtocolHeader::len_response() and the length of a Job header
HeaderLenResponse == 12
HeaderLenRequest == 10
RosctrJob == 1
RosctrAck == 2
RosctrAckData == 3
ItemSuccess == 255
U8 == 256
U16 == 65536
U24 == 16777216

(***************************************************************************)
(* errors.rs: the Error enum.  Every error is a record of one shape.       *)
(***************************************************************************)
Error(tag) == [tag |-> tag, msg |-> "", req_size |-> 0, max_pdu |-> 0]

ConnectionError(msg) == [tag |-> "Connection", msg |-> msg, req_size |-> 0, max_pdu |-> 0]

ResponseDataWouldBeTooLarge(req_size, max_pdu) ==
    [tag |-> "ResponseDataWouldBeTooLarge", msg |-> "",
     req_size |-> req_size, max_pdu |-> max_pdu]

\* S7DataItemResponseError::from(code)
S7DataItemResponseError(code) ==
    CASE code = 0 -> "Reserved"
      [] code = 1 -> "HardwareFault"
      [] code = 3 -> "AccessNotAllowed"
      [] code = 5 -> "AddressOutOfRange"
      [] code = 6 -> "DataTypeNotSupported"
      [] code = 7 -> "DataTypeInconsistent"
      [] code = 10 -> "ObjectDoesNotExist"
      [] OTHER -> "Unknown"

DataItemError(code) ==
    [tag |-> "DataItemError", msg |-> S7DataItemResponseError(code),
     req_size |-> 0, max_pdu |-> 0]

NoError == Error("")

\* every error taken for a connection error
is_connection_error_any(e) == TRUE

is_connection_error(e) ==
    e.tag \in {"IO", "Connection", "DataExchangeTimedOut", "ISOResponse"}

(***************************************************************************)
(* Results of operations: Ok(data), Ok(per-item results) or Err(error).    *)
(***************************************************************************)
Ok(data) == [ok |-> TRUE, err |-> NoError, data |-> data, items |-> <<>>]
OkItems(items) == [ok |-> TRUE, err |-> NoError, data |-> <<>>, items |-> items]
Err(e) == [ok |-> FALSE, err |-> e, data |-> <<>>, items |-> <<>>]

RECURSIVE SumSeq(_)
SumSeq(s) == IF s = <<>> THEN 0 ELSE Head(s) + SumSeq(Tail(s))

RECURSIVE Pow2(_)
Pow2(n) == IF n = 0 THEN 1 ELSE 2 * Pow2(n - 1)

(***************************************************************************)
(* client/mod.rs: verify_max_bit, S7ReadAccess and S7WriteAccess.          *)
(***************************************************************************)
\* the bound off by one: bit 8 passes
verify_max_bit_8(bit) == IF bit > 8 THEN Err(Error("RequestedBitOutOfRange")) ELSE Ok(<<>>)

verify_max_bit(bit) == IF bit > 7 THEN Err(Error("RequestedBitOutOfRange")) ELSE Ok(<<>>)

ReadBytes(db_number, start, length) ==
    [kind |-> "Bytes", db_number |-> db_number, start |-> start,
     length |-> length, bit |-> 0, data |-> <<>>]

ReadBit(db_number, byte, bit) ==
    [kind |-> "Bit", db_number |-> db_number, start |-> byte,
     length |-> 1, bit |-> bit, data |-> <<>>]

WriteBytes(db_number, start, data) ==
    [kind |-> "Bytes", db_number |-> db_number, start |-> start,
     length |-> Len(data), bit |-> 0, data |-> data]

WriteBit(db_number, byte, bit, value) ==
    [kind |-> "Bit", db_number |-> db_number, start |-> byte,
     length |-> 1, bit |-> bit, data |-> <<IF value THEN 1 ELSE 0>>]

\* S7ReadAccess::start: a byte index, or the bit index byte * 8 + bit
S7ReadAccess_start(a) == IF a.kind = "Bytes" THEN a.start ELSE a.start * 8 + a.bit

S7ReadAccess_len(a) == IF a.kind = "Bytes" THEN a.length ELSE 1

S7ReadAccess_data_type(a) == IF a.kind = "Bytes" THEN S7BYTE ELSE S7BIT

S7ReadAccess_max_bit(a) == IF a.kind = "Bytes" THEN 0 ELSE a.bit

\* the bit of a Bit access forgotten: the address of the byte's bit 0
S7WriteAccess_start_byte_only(a) == IF a.kind = "Bytes" THEN a.start ELSE a.start * 8

S7WriteAccess_start(a) == IF a.kind = "Bytes" THEN a.start ELSE a.start * 8 + a.bit

S7WriteAccess_len(a) == IF a.kind = "Bytes" THEN Len(a.data) ELSE 1

S7WriteAccess_data_type(a) == IF a.kind = "Bytes" THEN S7BYTE ELSE S7BIT

\* S7WriteAccess::data: the bytes, or one byte holding the bool
S7WriteAccess_data(a) == a.data

S7WriteAccess_max_bit(a) == IF a.kind = "Bytes" THEN 0 ELSE a.bit

(***************************************************************************)
(* s7_protocol/segments/request_item.rs                                    *)
(***************************************************************************)
\* RequestItem::address_to_bytes: the low three bytes, big-endian
address_to_bytes(address) ==
    <<(address \div 65536) % 256, (address \div 256) % 256, address % 256>>

\* RequestItem::build; length does not fit u16 -> TooManyItemsInOneRequest
RequestItem_build(area, db_number, start, data_type, length) ==
    IF length >= U16
    THEN [ok |-> FALSE, err |-> Error("TooManyItemsInOneRequest")]
    ELSE [ok |-> TRUE, err |-> NoError,
          specification_type |-> SPEC_TYPE_READ_WRITE,
          item_length |-> 10,
          syntax_id |-> SYNTAX_ID_ANY_TYPE,
          var_type |-> data_type,
          data_length |-> length,
          db_number |-> db_number,
          area |-> area,
          address |-> IF data_type \in {S7BIT, S7COUNTER, S7TIMER}
                      THEN start ELSE start * 8]

\* From<RequestItem> for BytesMut: the twelve bytes of an item on the wire
RequestItem_bytes(item) ==
    <<item.specification_type, item.item_length, item.syntax_id, item.var_type,
      item.data_length \div 256, item.data_length % 256,
      item.db_number \div 256, item.db_number % 256,
      item.area>> \o address_to_bytes(item.address)

\* the byte sequences of s, one after the other
RECURSIVE Concat(_)
Concat(s) == IF s = <<>> THEN <<>> ELSE Head(s) \o Concat(Tail(s))

(***************************************************************************)
(* s7_protocol/segments/parameters.rs and read_area.rs / write_area.rs     *)
(***************************************************************************)
\* ReadWriteParams::build_read / build_write followed by From<..> for BytesMut
ReadWriteParams_bytes(function_code, items) ==
    <<function_code, Len(items) % U8>>
    \o Concat([i \in 1 .. Len(items) |-> RequestItem_bytes(items[i])])

(***************************************************************************)
(* s7_protocol/types.rs and s7_protocol/segments/data_item.rs              *)
(***************************************************************************)
\* DataItemTransportSize::from(S7DataTypes), for the types the client uses
TransportOf(data_type) == IF data_type = S7BIT THEN TransportBit ELSE TransportByte

\* DataItemTransportSize::from(u8) followed by len()
TransportLen(var_type) ==
    CASE var_type = TransportBit -> 1
      [] var_type \in {TransportByte, TransportInteger, TransportReal,
                       TransportOctetString} -> 8
      [] OTHER -> 0

\* DataItem::build_write2 followed by From<DataItem> for BytesMut
DataItem_build_write2(data_type, data) ==
    IF Len(data) >= U16
    THEN [ok |-> FALSE, err |-> Error("DataItemTooLarge"), bytes |-> <<>>]
    ELSE LET count == (Len(data) * TransportLen(TransportOf(data_type))) % U16
         IN  [ok |-> TRUE, err |-> NoError,
              bytes |-> <<0, TransportOf(data_type), count \div 256, count % 256>> \o data]

Drop(s, n) == IF n >= Len(s) THEN <<>> ELSE SubSeq(s, n + 1, Len(s))
Take(s, n) == IF n >= Len(s) THEN s ELSE SubSeq(s, 1, n)

\* the item header taken as three bytes long: the payload starts one byte early
DataItem_try_from_short_header(bytes) ==
    IF Len(bytes) >= 4
    THEN LET error_code == bytes[1]
             var_type == bytes[2]
             raw == bytes[3] * 256 + bytes[4]
             count == IF TransportLen(var_type) = 0 THEN 0
                      ELSE raw \div TransportLen(var_type)
             body == Drop(bytes, 3)
         IN  [res |-> IF error_code # ItemSuccess
                      THEN Err(DataItemError(error_code))
                      ELSE Ok(Take(body, count)),
              rest |-> Drop(body, count),
              short |-> count > Len(body)]
    ELSE [res |-> Err(Error("TryFrom")), rest |-> bytes, short |-> FALSE]

\* TryFrom<&mut BytesMut> for DataItem: the decoded item and the bytes left
DataItem_try_from(bytes) ==
    IF Len(bytes) >= 4
    THEN LET error_code == bytes[1]
             var_type == bytes[2]
             raw == bytes[3] * 256 + bytes[4]
             count == IF TransportLen(var_type) = 0 THEN 0
                      ELSE raw \div TransportLen(var_type)
             body == Drop(bytes, 4)
         IN  [res |-> IF error_code # ItemSuccess
                      THEN Err(DataItemError(error_code))
                      ELSE Ok(Take(body, count)),
              rest |-> Drop(body, count),
              short |-> count > Len(body)]
    ELSE [res |-> Err(Error("TryFrom")), rest |-> bytes, short |-> FALSE]

(***************************************************************************)
(* s7_protocol/header.rs: S7ProtocolHeader, as its callers use it.         *)
(***************************************************************************)
\* a request header that carries the counter as it is
build_request_no_advance(pdu_ref, param_length, data_length) ==
    [rosctr |-> RosctrJob, pdu_ref |-> pdu_ref,
     param_length |-> param_length, data_length |-> data_length]

\* build_request(&mut pdu_number, ..): advances the counter, then uses it
build_request(pdu_ref, param_length, data_length) ==
    [rosctr |-> RosctrJob, pdu_ref |-> (pdu_ref + 1) % U16,
     param_length |-> param_length, data_length |-> data_length]

is_ack_with_data(header) ==
    IF header.rosctr = RosctrAckData THEN NoError ELSE Error("RequestNotAcknowledged")

is_ack(header) ==
    IF header.rosctr = RosctrAck THEN NoError ELSE Error("RequestNotAcknowledged")

is_current_pdu_response(header, pdu_ref) ==
    IF header.pdu_ref = pdu_ref THEN NoError
    ELSE Error("ResponseDoesNotBelongToCurrentPDU")

has_error(header) == header.error_class # 0

(***************************************************************************)
(* A request PDU as handed to the frame layer: the Job header, the         *)
(* parameter bytes and the data-item bytes.                                *)
(***************************************************************************)
RequestPdu(header, params, data) == [header |-> header, params |-> params, data |-> data]

PduSize(pdu) == HeaderLenRequest + Len(pdu.params) + Len(pdu.data)

(***************************************************************************)
(* The PLC: holds PlcSize bytes in data block PlcDb and in each of the     *)
(* other areas, decodes the request items from the wire bytes and answers  *)
(* every item in request order.                                            *)
(***************************************************************************)
PlcDb == 1
Areas == {AreaProcessInput, AreaProcessOutput, AreaMerker, AreaDataBlock}
PlcAddrs == 0 .. (PlcSize - 1)

\* the request items of a parameter block, decoded from its bytes
RECURSIVE PlcItems(_, _)
PlcItems(bytes, n) ==
    IF n = 0 \/ Len(bytes) < RequestItemLen THEN <<>>
    ELSE <<[var_type |-> bytes[4],
            data_length |-> bytes[5] * 256 + bytes[6],
            db_number |-> bytes[7] * 256 + bytes[8],
            area |-> bytes[9],
            address |-> bytes[10] * 65536 + bytes[11] * 256 + bytes[12]]>>
         \o PlcItems(Drop(bytes, RequestItemLen), n - 1)

\* 255 when the item addresses existing memory, else the item's error code
PlcCheck(it) ==
    IF it.area \notin Areas THEN 10
    ELSE IF it.area = AreaDataBlock /\ it.db_number # PlcDb THEN 10
    ELSE IF it.var_type = S7BIT
         THEN (IF it.address \div 8 < PlcSize THEN ItemSuccess ELSE 5)
    ELSE IF it.var_type = S7BYTE
         THEN (IF it.address \div 8 + it.data_length <= PlcSize THEN ItemSuccess ELSE 5)
    ELSE 6

BitOf(byte, bit) == (byte \div Pow2(bit)) % 2

SetBit(byte, bit, value) == byte - BitOf(byte, bit) * Pow2(bit) + value * Pow2(bit)

\* the data item the PLC returns for one request item of a read
PlcReadItem(m, it) ==
    IF PlcCheck(it) # ItemSuccess THEN <<PlcCheck(it), TransportNull, 0, 0>>
    ELSE IF it.var_type = S7BIT
    THEN <<ItemSuccess, TransportBit, 0, 1,
           BitOf(m[it.area][it.address \div 8], it.address % 8)>>
    ELSE <<ItemSuccess, TransportByte,
           ((it.data_length * 8) % U16) \div 256, (it.data_length * 8) % 256>>
         \o [i \in 1 .. it.data_length |-> m[it.area][it.address \div 8 + i - 1]]

\* the memory after one item of a write, whose payload is data
PlcWriteItem(m, it, data) ==
    IF PlcCheck(it) # ItemSuccess \/ Len(data) < it.data_length THEN m
    ELSE IF it.var_type = S7BIT
    THEN [m EXCEPT ![it.area][it.address \div 8] =
              SetBit(@, it.address % 8, IF data[1] = 0 THEN 0 ELSE 1)]
    ELSE [m EXCEPT ![it.area] =
              [a \in PlcAddrs |->
                  IF a >= it.address \div 8 /\ a < it.address \div 8 + it.data_length
                  THEN data[a - it.address \div 8 + 1] ELSE @[a]]]

\* one data item of a write request, as the PLC decodes it
PlcDataItem(data) ==
    LET count == IF TransportLen(data[2]) = 0 THEN 0
                 ELSE (data[3] * 256 + data[4]) \div TransportLen(data[2])
    IN  [payload |-> Take(Drop(data, 4), count), rest |-> Drop(Drop(data, 4), count)]

\* the PLC works through the items of a write and the data items that follow
RECURSIVE PlcWrite(_, _, _)
PlcWrite(m, items, data) ==
    IF items = <<>> THEN [mem |-> m, codes |-> <<>>]
    ELSE IF Len(data) < 4
    THEN [mem |-> m, codes |-> [i \in 1 .. Len(items) |-> 7]]
    ELSE LET di == PlcDataItem(data)
             it == Head(items)
             code == IF Len(di.payload) < it.data_length THEN 7 ELSE PlcCheck(it)
             rec == PlcWrite(IF code = ItemSuccess
                             THEN PlcWriteItem(m, it, di.payload) ELSE m,
                             Tail(items), di.rest)
         IN  [mem |-> rec.mem, codes |-> <<code>> \o rec.codes]

PlcReadBody(m, items) ==
    Concat([i \in 1 .. Len(items) |-> PlcReadItem(m, items[i])])

(***************************************************************************)
(* What the environment does to one round trip: whether the send and the   *)
(* receive phase of exchange_buffer time out or fail, which header the     *)
(* answer carries, and whether the PLC has carried out a write.            *)
(***************************************************************************)
Env(send, recv, hdr, applied) ==
    [send |-> send, recv |-> recv, hdr |-> hdr, applied |-> applied]

OkEnv == Env("ok", "ok", "ok", TRUE)

ReadFaults ==
    { Env("timeout", "ok", "ok", FALSE), Env("io", "io", "ok", FALSE),
      Env("ok", "timeout", "ok", FALSE), Env("ok", "iso", "ok", FALSE),
      Env("ok", "ok", "nack", FALSE), Env("ok", "ok", "stale", FALSE),
      Env("ok", "ok", "nack_stale", FALSE), Env("ok", "ok", "hdr_error", FALSE),
      Env("ok", "ok", "stale_error", FALSE), Env("ok", "ok", "nack_error", FALSE) }

WriteFaults ==
    { Env("timeout", "ok", "ok", FALSE), Env("ok", "timeout", "ok", TRUE),
      Env("ok", "io", "ok", FALSE), Env("ok", "iso", "ok", TRUE),
      Env("ok", "ok", "nack", FALSE), Env("ok", "ok", "stale", TRUE),
      Env("ok", "ok", "nack_stale", FALSE), Env("ok", "ok", "hdr_error", FALSE),
      Env("ok", "ok", "stale_error", FALSE), Env("ok", "ok", "nack_error", FALSE) }

TransportFaults ==
    { Env("ok", "timeout", "ok", FALSE), Env("ok", "io", "ok", FALSE),
      Env("ok", "iso", "ok", FALSE) }

\* the request items the PLC finds in a request PDU
PlcRequestItems(pdu) == PlcItems(Drop(pdu.params, ReadWriteParamsLen), pdu.params[2])

\* the PLC's memory after the request
PlcMemAfter(m, pdu, env) ==
    IF pdu.params[1] = WRITE_OPERATION /\ env.send = "ok" /\ env.applied
       /\ env.hdr # "hdr_error"
    THEN PlcWrite(m, PlcRequestItems(pdu), pdu.data).mem
    ELSE m

\* the response PDU: header fields and the bytes after the header; a stale
\* response carries the reference of the request before, "stale_other" is
\* the stale response to a request of the other kind (an Ack read by a
\* read, an AckData read by a write)
PlcResponse(m, pdu, env) ==
    LET isWrite == pdu.params[1] = WRITE_OPERATION
        items == PlcRequestItems(pdu)
    IN  [header |->
            [rosctr |-> IF env.hdr \in {"nack", "nack_stale", "nack_error"} THEN RosctrJob
                        ELSE IF env.hdr = "stale_other"
                        THEN (IF isWrite THEN RosctrAckData ELSE RosctrAck)
                        ELSE IF isWrite THEN RosctrAck ELSE RosctrAckData,
             pdu_ref |-> IF env.hdr \in {"stale", "nack_stale", "stale_error", "stale_other"}
                         THEN (pdu.header.pdu_ref + U16 - 1) % U16
                         ELSE pdu.header.pdu_ref,
             error_class |->
                 IF env.hdr \in {"hdr_error", "stale_error", "nack_error"} THEN 129 ELSE 0,
             error_code |->
                 IF env.hdr \in {"hdr_error", "stale_error", "nack_error"} THEN 4 ELSE 0],
         body |-> <<pdu.params[1], pdu.params[2]>> \o
                  (IF isWrite THEN PlcWrite(m, items, pdu.data).codes
                   ELSE IF env.hdr = "short" THEN Take(PlcReadBody(m, items), 3)
                   ELSE PlcReadBody(m, items))]

(***************************************************************************)
(* connection/tcp.rs: exchange_buffer.  A send that fails is ignored, a    *)
(* send that times out ends the exchange; then the receive phase decides.  *)
(***************************************************************************)
exchange_buffer(env, response) ==
    IF env.send = "timeout"
    THEN [ok |-> FALSE, err |-> Error("DataExchangeTimedOut"), response |-> response]
    ELSE CASE env.recv = "ok" -> [ok |-> TRUE, err |-> NoError, response |-> response]
           [] env.recv = "timeout" ->
                [ok |-> FALSE, err |-> Error("DataExchangeTimedOut"), response |-> response]
           [] env.recv = "io" -> [ok |-> FALSE, err |-> Error("IO"), response |-> response]
           [] OTHER -> [ok |-> FALSE, err |-> Error("ISOResponse"), response |-> response]

(***************************************************************************)
(* s7_protocol/read_area.rs                                                *)
(***************************************************************************)
\* the size of the data and of the item headers only
calculate_response_size_no_header(data_items) ==
    SumSeq([i \in 1 .. Len(data_items) |-> S7ReadAccess_len(data_items[i])])
    + Len(data_items) * DataItemHeaderLen

calculate_response_size(data_items) ==
    SumSeq([i \in 1 .. Len(data_items) |-> S7ReadAccess_len(data_items[i])])
    + Len(data_items) * DataItemHeaderLen + 14

\* the two budgets asserted in the other order
assert_pdu_size_for_read_swapped(data_items, max_pdu_size) ==
    IF calculate_response_size(data_items) > max_pdu_size
    THEN ResponseDataWouldBeTooLarge(calculate_response_size(data_items), max_pdu_size)
    ELSE IF 19 + Len(data_items) * RequestItemLen > max_pdu_size
    THEN Error("TooManyItemsInOneRequest")
    ELSE NoError

assert_pdu_size_for_read(data_items, max_pdu_size) ==
    IF 19 + Len(data_items) * RequestItemLen > max_pdu_size
    THEN Error("TooManyItemsInOneRequest")
    ELSE IF calculate_response_size(data_items) > max_pdu_size
    THEN ResponseDataWouldBeTooLarge(calculate_response_size(data_items), max_pdu_size)
    ELSE NoError

\* the split without the access for the rest of the data
ReadPlan_no_rest(max_pdu_size, data_item) ==
    IF calculate_response_size(<<data_item>>) > max_pdu_size
    THEN LET max_data_size == max_pdu_size - HeaderLenResponse - ReadWriteParamsLen
                              - DataItemHeaderLen
             item_count_required == S7ReadAccess_len(data_item) \div max_data_size
         IN  [i \in 1 .. item_count_required |->
                 ReadBytes(data_item.db_number,
                           (i - 1) * max_data_size + S7ReadAccess_start(data_item),
                           max_data_size)]
    ELSE <<data_item>>

\* the accesses read_area_single issues for one access (lines 65-103)
ReadPlan(max_pdu_size, data_item) ==
    IF calculate_response_size(<<data_item>>) > max_pdu_size
    THEN LET max_data_size == max_pdu_size - HeaderLenResponse - ReadWriteParamsLen
                              - DataItemHeaderLen
             item_count_required == S7ReadAccess_len(data_item) \div max_data_size
             rest == S7ReadAccess_len(data_item) % max_data_size
         IN  [i \in 1 .. item_count_required |->
                 ReadBytes(data_item.db_number,
                           (i - 1) * max_data_size + S7ReadAccess_start(data_item),
                           max_data_size)]
             \o (IF rest > 0
                 THEN <<ReadBytes(data_item.db_number,
                                  item_count_required * max_data_size
                                  + S7ReadAccess_start(data_item), rest)>>
                 ELSE <<>>)
    ELSE <<data_item>>

\* the checks without the comparison of the pdu_ref
ValidateReadHeader_no_ref(header, pdu_ref) ==
    IF is_ack_with_data(header) # NoError THEN is_ack_with_data(header)
    ELSE IF has_error(header) THEN Error("S7ProtocolError")
    ELSE NoError

\* the checks on a read response's header (lines 129-140), first failure wins
ValidateReadHeader(header, pdu_ref) ==
    IF is_ack_with_data(header) # NoError THEN is_ack_with_data(header)
    ELSE IF is_current_pdu_response(header, pdu_ref) # NoError
    THEN is_current_pdu_response(header, pdu_ref)
    ELSE IF has_error(header) THEN Error("S7ProtocolError")
    ELSE NoError

\* the request PDU of one read round trip (lines 108-123)
ReadRequest(pdu_ref, area, accesses) ==
    LET items == [i \in 1 .. Len(accesses) |->
                     RequestItem_build(area, accesses[i].db_number,
                                       S7ReadAccess_start(accesses[i]),
                                       S7ReadAccess_data_type(accesses[i]),
                                       S7ReadAccess_len(accesses[i]))]
        params == ReadWriteParams_bytes(READ_OPERATION, items)
    IN  RequestPdu(build_request(pdu_ref, Len(params), 0), params, <<>>)

\* the loop of read_area_single (lines 105-148) over the planned accesses;
\* envAt[i] is what happens to round trip i
RECURSIVE ReadLoop(_, _, _, _, _, _, _)
ReadLoop(m, area, items, pdu_ref, acc, reqs, envAt) ==
    IF items = <<>> THEN [res |-> Ok(acc), pdu_number |-> pdu_ref, reqs |-> reqs]
    ELSE LET pdu == ReadRequest(pdu_ref, area, <<Head(items)>>)
             ref == pdu.header.pdu_ref
             env == envAt[Len(reqs) + 1]
             ex == exchange_buffer(env, PlcResponse(m, pdu, env))
             check == ValidateReadHeader(ex.response.header, ref)
             item == DataItem_try_from(Drop(ex.response.body, ReadWriteParamsLen))
             sent == Append(reqs, pdu)
         IN  IF ~ex.ok THEN [res |-> Err(ex.err), pdu_number |-> ref, reqs |-> sent]
             ELSE IF check # NoError
             THEN [res |-> Err(check), pdu_number |-> ref, reqs |-> sent]
             ELSE IF ~item.res.ok
             THEN [res |-> item.res, pdu_number |-> ref, reqs |-> sent]
             ELSE ReadLoop(m, area, Tail(items), ref, acc \o item.res.data, sent, envAt)

\* a split read that sends all its sub-requests before it looks at a response
read_area_single_pipelined(m, max_pdu_size, pdu_ref, area, data_item, envAt) ==
    LET plan == ReadPlan(max_pdu_size, data_item)
        r == ReadLoop(m, area, plan, pdu_ref, <<>>, <<>>, envAt)
    IN  [r EXCEPT !.reqs = [i \in 1 .. Len(plan) |->
                               ReadRequest((pdu_ref + i - 1) % U16, area, <<plan[i]>>)],
                  !.pdu_number = (pdu_ref + Len(plan)) % U16]

read_area_single(m, max_pdu_size, pdu_ref, area, data_item, envAt) ==
    ReadLoop(m, area, ReadPlan(max_pdu_size, data_item), pdu_ref, <<>>, <<>>, envAt)

\* the decoding that stops at the first item the PLC reports an error for
RECURSIVE DecodeItems_abort(_, _)
DecodeItems_abort(bytes, n) ==
    IF n = 0 THEN <<>>
    ELSE IF ~DataItem_try_from(bytes).res.ok THEN <<DataItem_try_from(bytes).res>>
    ELSE <<DataItem_try_from(bytes).res>>
         \o DecodeItems_abort(DataItem_try_from(bytes).rest, n - 1)

\* the data items of a multi response, decoded one after the other (204-210)
RECURSIVE DecodeItems(_, _)
DecodeItems(bytes, n) ==
    IF n = 0 THEN <<>>
    ELSE <<DataItem_try_from(bytes).res>>
         \o DecodeItems(DataItem_try_from(bytes).rest, n - 1)

read_area_multi(m, max_pdu_size, pdu_ref, area, info, env) ==
    IF assert_pdu_size_for_read(info, max_pdu_size) # NoError
    THEN [res |-> Err(assert_pdu_size_for_read(info, max_pdu_size)),
          pdu_number |-> pdu_ref, reqs |-> <<>>]
    ELSE LET pdu == ReadRequest(pdu_ref, area, info)
             ref == pdu.header.pdu_ref
             ex == exchange_buffer(env, PlcResponse(m, pdu, env))
             check == ValidateReadHeader(ex.response.header, ref)
         IN  IF ~ex.ok THEN [res |-> Err(ex.err), pdu_number |-> ref, reqs |-> <<pdu>>]
             ELSE IF check # NoError
             THEN [res |-> Err(check), pdu_number |-> ref, reqs |-> <<pdu>>]
             ELSE [res |-> OkItems(DecodeItems(Drop(ex.response.body, ReadWriteParamsLen),
                                               ex.response.body[2])),
                   pdu_number |-> ref, reqs |-> <<pdu>>]

(***************************************************************************)
(* s7_protocol/write_area.rs                                               *)
(***************************************************************************)
\* the budget of the request items only
assert_pdu_size_for_write_items_only(data_items, max_pdu_size) ==
    IF Len(data_items) * 18 + TTPKTHeaderLen > max_pdu_size
    THEN Error("TooManyItemsInOneRequest")
    ELSE NoError

assert_pdu_size_for_write(data_items, max_pdu_size) ==
    IF Len(data_items) * 18 + TTPKTHeaderLen > max_pdu_size
    THEN Error("TooManyItemsInOneRequest")
    ELSE IF SumSeq([i \in 1 .. Len(data_items) |-> S7WriteAccess_len(data_items[i])])
            + Len(data_items) * 16 + TTPKTHeaderLen > max_pdu_size
    THEN Error("TooMuchDataToWrite")
    ELSE NoError

\* the checks on a write response's header with the pdu_ref looked at first
ValidateWriteHeader_ref_first(header, pdu_ref) ==
    IF is_current_pdu_response(header, pdu_ref) # NoError
    THEN is_current_pdu_response(header, pdu_ref)
    ELSE IF is_ack(header) # NoError THEN is_ack(header)
    ELSE IF has_error(header) THEN Error("S7ProtocolError")
    ELSE NoError

\* the checks on a write response's header, first failure wins
ValidateWriteHeader(header, pdu_ref) ==
    IF is_ack(header) # NoError THEN is_ack(header)
    ELSE IF is_current_pdu_response(header, pdu_ref) # NoError
    THEN is_current_pdu_response(header, pdu_ref)
    ELSE IF has_error(header) THEN Error("S7ProtocolError")
    ELSE NoError

\* the request PDU of a write: parameters, then one data item per access
WriteRequest(pdu_ref, area, accesses) ==
    LET items == [i \in 1 .. Len(accesses) |->
                     RequestItem_build(area, accesses[i].db_number,
                                       S7WriteAccess_start(accesses[i]),
                                       S7WriteAccess_data_type(accesses[i]),
                                       S7WriteAccess_len(accesses[i]))]
        params == ReadWriteParams_bytes(WRITE_OPERATION, items)
        data == Concat([i \in 1 .. Len(accesses) |->
                           DataItem_build_write2(S7WriteAccess_data_type(accesses[i]),
                                                 S7WriteAccess_data(accesses[i])).bytes])
    IN  RequestPdu(build_request(pdu_ref, Len(params), Len(data)), params, data)

\* 255 signals everything went alright
WriteItemResult(error_code) ==
    IF error_code = ItemSuccess THEN Ok(<<>>) ELSE Err(DataItemError(error_code))

write_area_single(m, max_pdu_size, pdu_ref, area, data_item, env) ==
    IF assert_pdu_size_for_write(<<data_item>>, max_pdu_size) # NoError
    THEN [res |-> Err(assert_pdu_size_for_write(<<data_item>>, max_pdu_size)),
          pdu_number |-> pdu_ref, reqs |-> <<>>, mem |-> m]
    ELSE LET pdu == WriteRequest(pdu_ref, area, <<data_item>>)
             ref == pdu.header.pdu_ref
             ex == exchange_buffer(env, PlcResponse(m, pdu, env))
             check == ValidateWriteHeader(ex.response.header, ref)
             after == PlcMemAfter(m, pdu, env)
         IN  IF ~ex.ok
             THEN [res |-> Err(ex.err), pdu_number |-> ref, reqs |-> <<pdu>>, mem |-> after]
             ELSE IF check # NoError
             THEN [res |-> Err(check), pdu_number |-> ref, reqs |-> <<pdu>>, mem |-> after]
             ELSE [res |-> WriteItemResult(ex.response.body[3]),
                   pdu_number |-> ref, reqs |-> <<pdu>>, mem |-> after]

write_area_multi(m, max_pdu_size, pdu_ref, area, info, env) ==
    IF assert_pdu_size_for_write(info, max_pdu_size) # NoError
    THEN [res |-> Err(assert_pdu_size_for_write(info, max_pdu_size)),
          pdu_number |-> pdu_ref, reqs |-> <<>>, mem |-> m]
    ELSE LET pdu == WriteRequest(pdu_ref, area, info)
             ref == pdu.header.pdu_ref
             ex == exchange_buffer(env, PlcResponse(m, pdu, env))
             check == ValidateWriteHeader(ex.response.header, ref)
             after == PlcMemAfter(m, pdu, env)
         IN  IF ~ex.ok
             THEN [res |-> Err(ex.err), pdu_number |-> ref, reqs |-> <<pdu>>, mem |-> after]
             ELSE IF check # NoError
             THEN [res |-> Err(check), pdu_number |-> ref, reqs |-> <<pdu>>, mem |-> after]
             ELSE [res |-> OkItems([i \in 1 .. ex.response.body[2] |->
                                       WriteItemResult(ex.response.body[2 + i])]),
                   pdu_number |-> ref, reqs |-> <<pdu>>, mem |-> after]

(***************************************************************************)
(* client/create.rs, client/read.rs, client/write.rs: the public           *)
(* operations of S7Client, each from the closed check to its return.       *)
(***************************************************************************)
\* the closed check left out
validate_connection_info_open(is_closed) == NoError

validate_connection_info(is_closed) ==
    IF is_closed THEN ConnectionError("Connection is closed") ELSE NoError

\* the outcome of an operation that returned before calling a planner
Early(e) == [res |-> Err(e), pdu_number |-> pdu_number, reqs |-> <<>>,
             mem |-> mem, closed |-> closed]

\* the match on the planner's result in the read operations (read.rs 49-56)
ReadOutcome(r) ==
    [res |-> r.res, pdu_number |-> r.pdu_number, reqs |-> r.reqs, mem |-> mem,
     closed |-> IF ~r.res.ok /\ is_connection_error(r.res.err) THEN TRUE ELSE closed]

\* the write operations return the planner's result as it is (write.rs 29-38)
WriteOutcome(r) ==
    [res |-> r.res, pdu_number |-> r.pdu_number, reqs |-> r.reqs, mem |-> r.mem,
     closed |-> closed]

\* the first error verify_max_bit reports for the bits, in list order
RECURSIVE VerifyAll(_)
VerifyAll(bits) ==
    IF bits = <<>> THEN NoError
    ELSE IF ~verify_max_bit(Head(bits)).ok THEN verify_max_bit(Head(bits)).err
    ELSE VerifyAll(Tail(bits))

\* db_read, mb_read, i_read, o_read
ReadBytesOp(area, access, envAt) ==
    IF validate_connection_info(closed) # NoError
    THEN Early(validate_connection_info(closed))
    ELSE ReadOutcome(read_area_single(mem, pdu_length, pdu_number, area, access, envAt))

BoolResult(r) ==
    IF r.res.ok THEN [r EXCEPT !.res = Ok(<<IF r.res.data[1] > 0 THEN 1 ELSE 0>>)] ELSE r

db_read_bit_op(access, envAt) ==
    IF validate_connection_info(closed) # NoError
    THEN Early(validate_connection_info(closed))
    ELSE IF ~verify_max_bit(access.bit).ok THEN Early(verify_max_bit(access.bit).err)
    ELSE ReadOutcome(BoolResult(read_area_single(mem, pdu_length, pdu_number,
                                                 AreaDataBlock, access, envAt)))

db_read_multi_op(info, env) ==
    IF validate_connection_info(closed) # NoError
    THEN Early(validate_connection_info(closed))
    ELSE IF VerifyAll([i \in 1 .. Len(info) |-> S7ReadAccess_max_bit(info[i])]) # NoError
    THEN Early(VerifyAll([i \in 1 .. Len(info) |-> S7ReadAccess_max_bit(info[i])]))
    ELSE ReadOutcome(read_area_multi(mem, pdu_length, pdu_number, AreaDataBlock, info, env))

\* db_write, mb_write, i_write, o_write
WriteBytesOp(area, access, env) ==
    IF validate_connection_info(closed) # NoError
    THEN Early(validate_connection_info(closed))
    ELSE WriteOutcome(write_area_single(mem, pdu_length, pdu_number, area, access, env))

db_write_bit_op(access, env) ==
    IF validate_connection_info(closed) # NoError
    THEN Early(validate_connection_info(closed))
    ELSE IF ~verify_max_bit(access.bit).ok THEN Early(verify_max_bit(access.bit).err)
    ELSE WriteOutcome(write_area_single(mem, pdu_length, pdu_number,
                                        AreaDataBlock, access, env))

db_write_multi_op(info, env) ==
    IF validate_connection_info(closed) # NoError
    THEN Early(validate_connection_info(closed))
    ELSE IF VerifyAll([i \in 1 .. Len(info) |-> S7WriteAccess_max_bit(info[i])]) # NoError
    THEN Early(VerifyAll([i \in 1 .. Len(info) |-> S7WriteAccess_max_bit(info[i])]))
    ELSE WriteOutcome(write_area_multi(mem, pdu_length, pdu_number,
                                       AreaDataBlock, info, env))

(***************************************************************************)
(* Inputs of the operations.  Every operation is called with each of its   *)
(* argument choices while the PLC answers, and with one argument choice    *)
(* under each fault.                                                       *)
(***************************************************************************)
\* the pdu_length values the PLC returns in the negotiation
PduLengths == {22, 44}
\* the first byte index whose bit address does not fit 24 bits
BigStart == U24 \div 8
Starts == {1, BigStart}
Lens == {1, 2, MaxLen - 1, MaxLen}
BitTargets == {<<0, 3>>, <<1, 3>>, <<BigStart, 3>>, <<0, 8>>}
Zeros(n) == [i \in 1 .. n |-> 0]
\* 24 bytes pass the data budget of pdu_length 44, 25 bytes do not
WriteData == {<<8>>, <<0, 8>>, <<8, 0>>, Zeros(24), Zeros(25)}

MultiReads ==
    { <<ReadBytes(1, 0, 2), ReadBit(1, 0, 3)>>,
      <<ReadBit(2, 0, 0), ReadBytes(1, 1, 2)>>,
      <<ReadBytes(1, 0, 27)>>,
      <<ReadBytes(1, PlcSize - 1, 2), ReadBit(1, 0, 3)>>,
      <<ReadBytes(1, 0, 2), ReadBit(1, 0, 8)>>,
      <<ReadBit(1, 0, 0), ReadBit(1, 0, 3), ReadBit(1, 1, 0)>> }

MultiWrites ==
    { <<WriteBytes(1, 0, <<0, 8>>), WriteBit(1, 2, 3, TRUE)>>,
      <<WriteBit(2, 0, 3, TRUE), WriteBytes(1, 1, <<8>>)>>,
      <<WriteBytes(1, 0, Zeros(5)), WriteBytes(1, 5, Zeros(4))>>,
      <<WriteBytes(1, 0, <<8>>), WriteBit(1, 0, 9, FALSE)>>,
      <<WriteBit(1, 0, 3, TRUE), WriteBit(1, 1, 3, TRUE), WriteBit(1, 2, 3, TRUE)>> }

\* every round trip of the operation is answered
AllOk == [i \in 1 .. MaxLen |-> OkEnv]

\* round trip k of the operation meets the fault f
FaultAt(k, f) == [i \in 1 .. MaxLen |-> IF i = k THEN f ELSE OkEnv]

FaultSeqs(faults) == { FaultAt(k, f) : k \in 1 .. 3, f \in faults }

ReadInputs ==
    { <<ReadBytes(1, start, length), AllOk>> : start \in Starts, length \in Lens }
    \cup { <<ReadBytes(1, 1, MaxLen), e>> : e \in FaultSeqs(ReadFaults) }
    \cup { <<ReadBytes(2, 0, 1), AllOk>>,
           <<ReadBytes(2, 0, 1), FaultAt(1, Env("ok", "ok", "hdr_error", FALSE))>>,
           <<ReadBytes(1, 0, 1), FaultAt(1, Env("ok", "ok", "short", FALSE))>> }

ReadBitInputs ==
    { <<ReadBit(1, t[1], t[2]), AllOk>> : t \in BitTargets }
    \cup { <<ReadBit(1, 0, 3), FaultAt(1, f)>> : f \in ReadFaults }

ReadMultiInputs ==
    { <<info, OkEnv>> : info \in MultiReads }
    \cup { <<<<ReadBytes(1, 0, 2), ReadBit(1, 0, 3)>>, f>> : f \in ReadFaults }

AreaReadInputs ==
    { <<ReadBytes(0, 0, MaxLen), AllOk>> }
    \cup { <<ReadBytes(0, 0, 1), FaultAt(1, f)>> : f \in TransportFaults }

WriteInputs ==
    { <<WriteBytes(1, 1, data), OkEnv>> : data \in WriteData }
    \cup { <<WriteBytes(1, BigStart, <<8>>), OkEnv>>, <<WriteBytes(2, 1, <<8>>), OkEnv>>,
           <<WriteBytes(2, 1, <<8>>), Env("ok", "ok", "hdr_error", FALSE)>> }
    \cup { <<WriteBytes(1, 1, <<8>>), f>> : f \in WriteFaults }

WriteBitInputs ==
    { <<WriteBit(1, t[1], t[2], v), OkEnv>> : t \in BitTargets, v \in BOOLEAN }
    \cup { <<WriteBit(1, 0, 3, TRUE), f>> : f \in WriteFaults }

WriteMultiInputs ==
    { <<info, OkEnv>> : info \in MultiWrites }
    \cup { <<<<WriteBytes(1, 0, <<0, 8>>), WriteBit(1, 2, 3, TRUE)>>, f>> : f \in WriteFaults }

AreaWriteInputs ==
    { <<WriteBytes(0, 0, <<0>>), OkEnv>> }
    \cup { <<WriteBytes(0, 0, <<0>>), f>> : f \in TransportFaults }

(***************************************************************************)
(* The state after S7Client::new: the handshake has succeeded, the         *)
(* session is open and holds the negotiated pdu_length.  The reference     *)
(* counter starts at 0; the session that has sent 65535 requests is a      *)
(* start state too, so that the counter wraps within the bound.            *)
(***************************************************************************)
Init ==
    /\ closed = FALSE
    /\ pdu_length \in PduLengths
    /\ pdu_number \in {0, U16 - 1}
    /\ mem = [a \in Areas |-> [i \in PlcAddrs |-> 0]]
    /\ last = [op |-> "new", area |-> 0, args |-> <<>>, res |-> Ok(<<>>), reqs |-> <<>>,
               envs |-> <<>>, closed_before |-> TRUE, pdu_before |-> 0]
    /\ nReq = 0
    /\ pool = <<>> /\ conns = <<>> /\ tasks = <<>> /\ created = <<>> /\ rx = <<>> /\ trig = <<>>
    /\ enc = <<>> /\ stream = <<>>

\* an operation returns: the session, the PLC and the record of the call
Returned(op, area, args, envs, out) ==
    /\ closed' = out.closed
    /\ pdu_number' = out.pdu_number
    /\ mem' = out.mem
    /\ nReq' = nReq + Len(out.reqs)
    /\ last' = [op |-> op, area |-> area, args |-> args, res |-> out.res,
                reqs |-> out.reqs, envs |-> envs,
                closed_before |-> closed, pdu_before |-> pdu_number]

\* an operation of a session whose stream holds no unread response
Return(op, area, args, envs, out) ==
    /\ Returned(op, area, args, envs, out)
    /\ UNCHANGED <<pdu_length, poolvars, created, rx, trig, enc, stream>>

db_read ==
    \E in \in ReadInputs :
        /\ nReq < MaxReq
        /\ Return("db_read", AreaDataBlock, <<in[1]>>, in[2],
                  ReadBytesOp(AreaDataBlock, in[1], in[2]))

db_read_bit ==
    \E in \in ReadBitInputs :
        /\ nReq < MaxReq
        /\ Return("db_read_bit", AreaDataBlock, <<in[1]>>, in[2],
                  db_read_bit_op(in[1], in[2]))

db_read_multi ==
    \E in \in ReadMultiInputs :
        /\ nReq < MaxReq
        /\ Return("db_read_multi", AreaDataBlock, in[1], <<in[2]>>,
                  db_read_multi_op(in[1], in[2]))

mb_read ==
    \E in \in AreaReadInputs :
        /\ nReq < MaxReq
        /\ Return("mb_read", AreaMerker, <<in[1]>>, in[2],
                  ReadBytesOp(AreaMerker, in[1], in[2]))

i_read ==
    \E in \in AreaReadInputs :
        /\ nReq < MaxReq
        /\ Return("i_read", AreaProcessInput, <<in[1]>>, in[2],
                  ReadBytesOp(AreaProcessInput, in[1], in[2]))

o_read ==
    \E in \in AreaReadInputs :
        /\ nReq < MaxReq
        /\ Return("o_read", AreaProcessOutput, <<in[1]>>, in[2],
                  ReadBytesOp(AreaProcessOutput, in[1], in[2]))

db_write ==
    \E in \in WriteInputs :
        /\ nReq < MaxReq
        /\ Return("db_write", AreaDataBlock, <<in[1]>>, <<in[2]>>,
                  WriteBytesOp(AreaDataBlock, in[1], in[2]))

db_write_bit ==
    \E in \in WriteBitInputs :
        /\ nReq < MaxReq
        /\ Return("db_write_bit", AreaDataBlock, <<in[1]>>, <<in[2]>>,
                  db_write_bit_op(in[1], in[2]))

db_write_multi ==
    \E in \in WriteMultiInputs :
        /\ nReq < MaxReq
        /\ Return("db_write_multi", AreaDataBlock, in[1], <<in[2]>>,
                  db_write_multi_op(in[1], in[2]))

mb_write ==
    \E in \in AreaWriteInputs :
        /\ nReq < MaxReq
        /\ Return("mb_write", AreaMerker, <<in[1]>>, <<in[2]>>,
                  WriteBytesOp(AreaMerker, in[1], in[2]))

i_write ==
    \E in \in AreaWriteInputs :
        /\ nReq < MaxReq
        /\ Return("i_write", AreaProcessInput, <<in[1]>>, <<in[2]>>,
                  WriteBytesOp(AreaProcessInput, in[1], in[2]))

o_write ==
    \E in \in AreaWriteInputs :
        /\ nReq < MaxReq
        /\ Return("o_write", AreaProcessOutput, <<in[1]>>, <<in[2]>>,
                  WriteBytesOp(AreaProcessOutput, in[1], in[2]))

(***************************************************************************)
(* connection/iso.rs, connection/tcp.rs, s7_protocol/negotiate.rs: the     *)
(* frames of the handshake and of the disconnect as bytes, the parsers of  *)
(* their answers, and what the PLC and the transport can answer.           *)
(***************************************************************************)
PDU_TYPE_CR == 224
PDU_TYPE_CC == 208
PDU_TYPE_DR == 128
PDU_TYPE_DC == 192

\* Error::ISOResponse(IsoError)
ISOResponse(kind) == [tag |-> "ISOResponse", msg |-> kind, req_size |-> 0, max_pdu |-> 0]

\* u16::to_be_bytes, BufMut::put_u16
U16Bytes(n) == <<n \div U8, n % U8>>

ISO_TCP_VERSION == 3

\* enum S7Types
S7Types == {"S7200", "S7300", "S7400", "S71200", "S71500"}

\* S7Types::to_tsap_info
to_tsap_info(s7_type) ==
    IF s7_type \in {"S7200", "S7300", "S7400"} THEN [rack |-> 0, slot |-> 2]
    ELSE [rack |-> 0, slot |-> 0]

\* Tsap::build: the source TSAP SRC_TSAP (0x0100) and the destination TSAP
\* (ConnectionType::Basic << 8) + rack * 0x20 + slot, each as code, length
\* and two bytes
Tsap_build(s7_type) ==
    LET dst_tsap == 3 * U8 + to_tsap_info(s7_type).rack * 32 + to_tsap_info(s7_type).slot
    IN  <<193, 2>> \o U16Bytes(256) \o <<194, 2>> \o U16Bytes(dst_tsap)

\* IsoControlPDU::build: the match that turns pdu_size into the code of the
\* TPDU size
pdu_size_val(pdu_size) ==
    CASE pdu_size = 128 -> 7
      [] pdu_size = 256 -> 8
      [] pdu_size = 512 -> 9
      [] pdu_size = 1024 -> 10
      [] pdu_size = 4096 -> 12
      [] pdu_size = 8192 -> 13
      [] OTHER -> 11

\* Vec<u8>::from(IsoControlPDU::build(pdu_size, s7_type)): TPKT header, COTP
\* Connection Request, TPDU size and the two TSAPs
IsoControlPDU_build(pdu_size, s7_type) ==
    <<ISO_TCP_VERSION, 0>> \o U16Bytes(TTPKTHeaderLen + 7 + 11)
    \o <<11 + 6, PDU_TYPE_CR>> \o U16Bytes(0) \o U16Bytes(256) \o <<0>>
    \o <<192, 1, pdu_size_val(pdu_size)>> \o Tsap_build(s7_type)

\* tcp::connect: the Connection Request it writes,
\* IsoControlPDU::build(1024, s7_type).into()
IsoControlPDU_bytes(s7_type) == IsoControlPDU_build(1024, s7_type)

\* Vec<u8>::from(IsoDisconnect::build()): TPKT header (its length is
\* size_of::<TTPKTHeader>() - 1 + size_of::<COTPDisconnect>() = 3 + 8), COTP
\* Disconnect Request with reason 128
IsoDisconnect_bytes ==
    <<3, 0>> \o U16Bytes(3 + 8)
    \o <<6, PDU_TYPE_DR>> \o U16Bytes(0) \o U16Bytes(256) \o <<128>>

\* TryFrom for COTPConnection: seven bytes of header, then COTPParams, which
\* needs three bytes more
COTPConnection_try_from(bytes) ==
    IF Len(bytes) >= 7 /\ Len(bytes) - 7 >= 3
    THEN [ok |-> TRUE, err |-> NoError, pdu_type |-> bytes[2]]
    ELSE [ok |-> FALSE, err |-> ISOResponse("ShortPacket"), pdu_type |-> 0]

\* TryFrom for COTPDisconnect
COTPDisconnect_try_from(bytes) ==
    IF Len(bytes) >= 7
    THEN [ok |-> TRUE, err |-> NoError, pdu_type |-> bytes[2]]
    ELSE [ok |-> FALSE, err |-> ISOResponse("ShortPacket"), pdu_type |-> 0]

\* a check that accepts every pdu_type
req_ok_any(pdu_type, expected) == NoError

\* CoTp::req_ok
req_ok(pdu_type, expected) ==
    IF expected = pdu_type THEN NoError ELSE ISOResponse("InvalidPDU")

\* From<NegotiatePDUParameters> for BytesMut
NegotiatePDUParameters_bytes(params) ==
    <<240, 0>> \o U16Bytes(params.max_amq_caller) \o U16Bytes(params.max_amq_calle)
    \o U16Bytes(params.pdu_length)

\* TryFrom<&mut BytesMut> for NegotiatePDUParameters: get_u16 for
\* max_amq_caller and pdu_length, get_u16_le for max_amq_calle
NegotiatePDUParameters_try_from(bytes) ==
    IF Len(bytes) >= 8
    THEN [ok |-> TRUE, err |-> NoError,
          max_amq_caller |-> bytes[3] * U8 + bytes[4],
          max_amq_calle |-> bytes[5] + bytes[6] * U8,
          pdu_length |-> bytes[7] * U8 + bytes[8]]
    ELSE [ok |-> FALSE,
          err |-> ConnectionError("Received short packet while negotiating connection"),
          max_amq_caller |-> 0, max_amq_calle |-> 0, pdu_length |-> 0]

\* what the PLC and the transport can answer: fault "io" is a failed write or
\* read of the header, "size" a failed read of the frame's body; rosctr is
\* the rosctr of the S7 header of a data frame, bytes what follows the TPKT
\* header (COTP frames) or the S7 header (the negotiation answer)
PlcAnswer(fault, rosctr, bytes) == [fault |-> fault, rosctr |-> rosctr, bytes |-> bytes]

PlcAnswers ==
    [cr |-> { PlcAnswer("", 0, <<17, PDU_TYPE_CC, 1, 0, 0, 1, 0, 192, 1, 10,
                                193, 2, 1, 0, 194, 2, 3, 0>>),
              PlcAnswer("", 0, <<6, PDU_TYPE_CC, 1, 0, 0, 1, 0>>),
              PlcAnswer("", 0, <<6, PDU_TYPE_DR, 1, 0, 0, 1, 0>>),
              PlcAnswer("", 0, <<9, PDU_TYPE_DR, 1, 0, 0, 1, 0, 224, 1, 0>>),
              PlcAnswer("io", 0, <<>>), PlcAnswer("size", 0, <<>>) },
     negotiate |->
         { PlcAnswer("", r, NegotiatePDUParameters_bytes(
                              [max_amq_caller |-> a, max_amq_calle |-> b, pdu_length |-> l])) :
               r \in {RosctrAckData, RosctrAck}, a \in {1, 2, 8, 257}, b \in {1, 2, 8, 257},
               l \in {240, 480, 960} }
         \cup { PlcAnswer("", RosctrAckData, <<240, 0, 0, 1>>),
                PlcAnswer("io", 0, <<>>), PlcAnswer("timeout", 0, <<>>) },
     dr |-> { PlcAnswer("", 0, <<6, PDU_TYPE_DC, 1, 0, 0, 1, 0>>),
              PlcAnswer("", 0, <<6, PDU_TYPE_DR, 1, 0, 0, 1, 0>>),
              PlcAnswer("", 0, <<6, PDU_TYPE_DC, 1, 0, 0, 1>>),
              PlcAnswer("io", 0, <<>>), PlcAnswer("size", 0, <<>>) }]

\* the error of an answer that did not arrive as a frame
TransportError(answer) ==
    IF answer.fault = "" THEN NoError
    ELSE IF answer.fault = "io" THEN Error("IO")
    ELSE IF answer.fault = "timeout" THEN Error("DataExchangeTimedOut")
    ELSE ISOResponse("InvalidDataSize")

\* tcp::connect up to negotiate_connection_params: the answer to the
\* Connection Request is read, parsed and checked
connection_confirm(answer, check) ==
    IF TransportError(answer) # NoError THEN TransportError(answer)
    ELSE IF ~COTPConnection_try_from(answer.bytes).ok
    THEN COTPConnection_try_from(answer.bytes).err
    ELSE check

\* tcp::negotiate_connection_params: the answer's header must be AckData,
\* then the parameters are parsed
negotiate_connection_params(answer) ==
    IF TransportError(answer) # NoError
    THEN [NegotiatePDUParameters_try_from(<<>>) EXCEPT !.err = TransportError(answer)]
    ELSE IF is_ack_with_data([rosctr |-> answer.rosctr]) # NoError
    THEN [NegotiatePDUParameters_try_from(<<>>) EXCEPT
             !.err = is_ack_with_data([rosctr |-> answer.rosctr])]
    ELSE NegotiatePDUParameters_try_from(answer.bytes)

\* tcp::disconnect: the Disconnect Request is written, the answer read,
\* parsed and checked
tcp_disconnect(answer) ==
    IF TransportError(answer) # NoError THEN Err(TransportError(answer))
    ELSE IF ~COTPDisconnect_try_from(answer.bytes).ok
    THEN Err(COTPDisconnect_try_from(answer.bytes).err)
    ELSE IF req_ok(COTPDisconnect_try_from(answer.bytes).pdu_type, PDU_TYPE_DC) # NoError
    THEN Err(req_ok(COTPDisconnect_try_from(answer.bytes).pdu_type, PDU_TYPE_DC))
    ELSE Ok(<<>>)

\* the record of a connect or disconnect call
Handshake(op, outcome) ==
    [op |-> op, area |-> 0, args |-> <<>>,
     res |-> IF outcome = "ok" THEN Ok(<<>>)
             ELSE IF outcome = "IO" THEN Err(Error("IO"))
             ELSE Err(Error("ISOResponse")),
     reqs |-> <<>>, envs |-> <<>>,
     closed_before |-> closed, pdu_before |-> pdu_number]

\* S7Client::connect: the handshake on the session's stream; on success the
\* negotiated values are stored and the session is open
connect ==
    \E outcome \in {"ok", "InvalidPDU", "IO"}, negotiated \in PduLengths :
        /\ outcome # "ok" => negotiated = pdu_length
        /\ closed' = IF outcome = "ok" THEN FALSE ELSE closed
        /\ pdu_length' = IF outcome = "ok" THEN negotiated ELSE pdu_length
        /\ last' = Handshake("connect", outcome)
        /\ UNCHANGED <<pdu_number, mem, nReq, poolvars, created, rx, trig, enc, stream>>

\* S7Client::disconnect: the Disconnect Request is sent on the session's
\* stream; the session is closed only when tcp::disconnect returns Ok
disconnect ==
    \E answer \in PlcAnswers.dr :
        /\ closed' = IF tcp_disconnect(answer).ok THEN TRUE ELSE closed
        /\ last' = [Handshake("disconnect", "ok") EXCEPT
                        !.res = tcp_disconnect(answer),
                        !.reqs = <<[kind |-> "DR", bytes |-> IsoDisconnect_bytes]>>,
                        !.envs = <<answer>>]
        /\ UNCHANGED <<pdu_length, pdu_number, mem, nReq, poolvars, created, rx, trig, enc, stream>>

Next ==
    \/ db_read \/ db_read_bit \/ db_read_multi \/ mb_read \/ i_read \/ o_read
    \/ db_write \/ db_write_bit \/ db_write_multi \/ mb_write \/ i_write \/ o_write
    \/ connect \/ disconnect

Spec == Init /\ [][Next]_vars

(***************************************************************************)
(* Vocabulary of the properties: the kinds of operation, and the last      *)
(* round trip of the call that `last` records.                             *)
(***************************************************************************)
ReadOps == {"db_read", "db_read_bit", "db_read_multi", "mb_read", "i_read", "o_read"}

WriteOps == {"db_write", "db_write_bit", "db_write_multi", "mb_write", "i_write", "o_write"}

DataOps == ReadOps \cup WriteOps

ClosedError == Err(ConnectionError("Connection is closed"))

\* the call has put a request on the wire
Sent == last.op \in DataOps /\ last.reqs # <<>>

\* the last request of the call, what happened to it, and the answer's header
LastPdu == last.reqs[Len(last.reqs)]

LastEnv == last.envs[Len(last.reqs)]

LastHeader == PlcResponse(mem, LastPdu, LastEnv).header

\* the exchange of the last request ended with an error / delivered an answer
TransportFailed == Sent /\ ~exchange_buffer(LastEnv, <<>>).ok

Received == Sent /\ exchange_buffer(LastEnv, <<>>).ok

\* the address the first request item of a PDU carries on the wire
WireAddress(pdu) == PlcRequestItems(pdu)[1].address

(***************************************************************************)
(* Properties.                                                             *)
(***************************************************************************)

\* C1: while the closed flag is true, every read and every write operation
\* fails with Connection("Connection is closed") and sends nothing (no
\* request, pdu_number as it was), the session stays closed, and the only
\* step that opens a closed session is a connect() that succeeds.
C1_ClosedFailsFast ==
    [][ /\ (closed /\ last'.op \in DataOps) =>
              /\ last'.res = ClosedError
              /\ last'.reqs = <<>>
              /\ nReq' = nReq /\ pdu_number' = pdu_number /\ mem' = mem
              /\ closed'
        /\ (closed /\ ~closed') => (last'.op = "connect" /\ last'.res.ok) ]_vars

\* a write called on a closed session has failed without sending
C1_Witness ==
    /\ last.op = "db_write_multi" /\ last.closed_before
    /\ last.res = ClosedError /\ last.reqs = <<>> /\ closed

\* C2 (as stated): whenever a read or a write operation on an Open session
\* observes a transport error, the closed flag is true when the operation
\* returns, and the operation returns that error.
C2_TransportErrorCloses ==
    TransportFailed =>
        /\ closed
        /\ last.res = Err(exchange_buffer(LastEnv, <<>>).err)

\* a db_write whose exchange timed out has returned and the session is Open
C2_WriteStaysOpen ==
    /\ last.op = "db_write" /\ TransportFailed
    /\ last.res = Err(Error("DataExchangeTimedOut"))
    /\ ~closed

\* C3 (as stated): a response whose pdu_ref differs from the request's makes
\* the operation fail with ResponseDoesNotBelongToCurrentPDU.
C3_MismatchIsNotCurrentPDU ==
    (Received /\ LastHeader.pdu_ref # LastPdu.header.pdu_ref) =>
        last.res = Err(Error("ResponseDoesNotBelongToCurrentPDU"))

\* C3 (amended): an operation succeeds only on responses that carry the
\* request's pdu_ref; a response with a different pdu_ref makes the
\* operation fail and return no data, with ResponseDoesNotBelongToCurrentPDU
\* when its rosctr is the expected one (AckData for reads, Ack for writes)
\* and with RequestNotAcknowledged when it is not.
C3_MismatchRejected ==
    /\ (Received /\ last.res.ok) => LastHeader.pdu_ref = LastPdu.header.pdu_ref
    /\ (Received /\ LastHeader.pdu_ref # LastPdu.header.pdu_ref) =>
          /\ ~last.res.ok /\ last.res.data = <<>> /\ last.res.items = <<>>
          /\ last.res.err =
                IF LastHeader.rosctr =
                       (IF last.op \in ReadOps THEN RosctrAckData ELSE RosctrAck)
                THEN Error("ResponseDoesNotBelongToCurrentPDU")
                ELSE Error("RequestNotAcknowledged")

\* a db_read has met an AckData response with another pdu_ref and failed
C3_Witness ==
    /\ last.op = "db_read" /\ Received
    /\ LastHeader.pdu_ref # LastPdu.header.pdu_ref
    /\ LastHeader.rosctr = RosctrAckData
    /\ last.res = Err(Error("ResponseDoesNotBelongToCurrentPDU"))

\* C4: a db_read(db, s, L) that returns bytes returns exactly L bytes, on
\* the single path and when the read is split over several round trips.
C4_ReadLength ==
    (last.op = "db_read" /\ last.res.ok) => Len(last.res.data) = last.args[1].length

\* a read split over three round trips, the last one for the rest, returned
C4_Witness ==
    /\ last.op = "db_read" /\ last.res.ok
    /\ Len(last.reqs) = 3 /\ last.args[1].length = MaxLen
    /\ Len(last.res.data) = MaxLen

\* C5 (as stated): every write request that passes the pre-flight budgets
\* is sent as a request PDU (job header, parameter header, request items,
\* data items) not longer than the negotiated pdu_length.
C5_WritePduWithinPduLength ==
    (last.op \in WriteOps /\ last.reqs # <<>>) => PduSize(last.reqs[1]) <= pdu_length

\* a db_write has succeeded with a request PDU longer than pdu_length
C5_Oversized ==
    /\ last.op = "db_write" /\ last.res.ok
    /\ Len(last.args[1].data) = 24 /\ pdu_length = 44
    /\ PduSize(last.reqs[1]) = 52

\* the size of the response to a multi read: 14 + sum(len_i) + 4 * N
C6_ResponseSize(info) ==
    14 + SumSeq([i \in 1 .. Len(info) |->
                    IF info[i].kind = "Bit" THEN 1 ELSE info[i].length])
    + 4 * Len(info)

\* C6: db_read_multi with N accesses (bits <= 7) on an Open session fails
\* with TooManyItemsInOneRequest if 19 + 12 N > pdu_length, else with
\* ResponseDataWouldBeTooLarge{14 + sum(len_i) + 4 N, pdu_length} if that sum
\* exceeds pdu_length, both without a request and without advancing the
\* pdu_ref; otherwise it sends exactly one request PDU with all N items.
C6_MultiReadBudgets ==
    (/\ last.op = "db_read_multi" /\ ~last.closed_before
     /\ \A i \in 1 .. Len(last.args) : last.args[i].bit <= 7) =>
        IF 19 + 12 * Len(last.args) > pdu_length
        THEN /\ last.res = Err(Error("TooManyItemsInOneRequest"))
             /\ last.reqs = <<>> /\ pdu_number = last.pdu_before
        ELSE IF C6_ResponseSize(last.args) > pdu_length
        THEN /\ last.res = Err(ResponseDataWouldBeTooLarge(C6_ResponseSize(last.args),
                                                           pdu_length))
             /\ last.reqs = <<>> /\ pdu_number = last.pdu_before
        ELSE /\ Len(last.reqs) = 1
             /\ last.reqs[1].params[2] = Len(last.args)
             /\ Len(last.reqs[1].params) = 2 + 12 * Len(last.args)
             /\ Len(PlcRequestItems(last.reqs[1])) = Len(last.args)

\* a multi read of one item was refused for its response size
C6_Witness ==
    /\ last.op = "db_read_multi" /\ ~last.closed_before
    /\ 19 + 12 * Len(last.args) <= pdu_length
    /\ last.res.err.tag = "ResponseDataWouldBeTooLarge"
    /\ last.res.err.req_size = 45 /\ last.res.err.max_pdu = 44

\* what the PLC's memory holds for a read access, or the PLC's item error
C7_ReadOf(a) ==
    IF a.db_number # PlcDb THEN Err(DataItemError(10))
    ELSE IF a.kind = "Bit"
    THEN (IF a.start < PlcSize
          THEN Ok(<<BitOf(mem[AreaDataBlock][a.start], a.bit)>>)
          ELSE Err(DataItemError(5)))
    ELSE IF a.start + a.length <= PlcSize
    THEN Ok([i \in 1 .. a.length |-> mem[AreaDataBlock][a.start + i - 1]])
    ELSE Err(DataItemError(5))

\* the PLC's verdict on a write access
C7_WriteOf(a) ==
    IF a.db_number # PlcDb THEN Err(DataItemError(10))
    ELSE IF a.start + Len(a.data) <= PlcSize THEN Ok(<<>>)
    ELSE Err(DataItemError(5))

\* C7: a multi read or write of N accesses that does not fail at transport
\* or header level returns exactly N results, result i being the one of
\* access i: the item's data or Ok, or Err(DataItemError) where the PLC
\* reports an error for item i, the other items' results unaffected.
C7_PositionAligned ==
    (last.op \in {"db_read_multi", "db_write_multi"} /\ last.res.ok) =>
        /\ Len(last.res.items) = Len(last.args)
        /\ \A i \in 1 .. Len(last.args) :
              last.res.items[i] = IF last.op = "db_read_multi"
                                  THEN C7_ReadOf(last.args[i])
                                  ELSE C7_WriteOf(last.args[i])

\* a multi read whose first item failed at the PLC and whose second did not
C7_Witness ==
    /\ last.op = "db_read_multi" /\ last.res.ok
    /\ Len(last.res.items) = 2
    /\ last.res.items[1] = Err(DataItemError(10))
    /\ last.res.items[2].ok /\ Len(last.res.items[2].data) = 2

\* C8: a db_write(db, s, v) that succeeds, followed by a db_read(db, s, |v|)
\* that succeeds, returns v, whatever was written to the range before.
C8_WriteReadRoundTrip ==
    [][ (/\ last.op = "db_write" /\ last.res.ok
         /\ last'.op = "db_read" /\ last'.res.ok
         /\ last'.args[1].db_number = last.args[1].db_number
         /\ last'.args[1].start = last.args[1].start
         /\ last'.args[1].length = Len(last.args[1].data)) =>
            last'.res.data = last.args[1].data ]_vars

\* a read has returned the two bytes written to byte 1 of the data block
C8_Witness ==
    /\ last.op = "db_read" /\ last.args[1].start = 1
    /\ last.res = Ok(<<0, 8>>)
    /\ mem[AreaDataBlock][1] = 0 /\ mem[AreaDataBlock][2] = 8

\* the step is a db_read_bit that follows a db_write_bit of the same bit
C9_RoundTripStep ==
    /\ last.op = "db_write_bit" /\ last.res.ok
    /\ last'.op = "db_read_bit" /\ last'.res.ok
    /\ last'.args[1].db_number = last.args[1].db_number
    /\ last'.args[1].start = last.args[1].start
    /\ last'.args[1].bit = last.args[1].bit

C10_BitOutOfRange ==
    /\ last.op \in {"db_read_bit", "db_write_bit", "db_read_multi", "db_write_multi"}
    /\ ~last.closed_before
    /\ \E i \in 1 .. Len(last.args) : last.args[i].kind = "Bit" /\ last.args[i].bit > 7

\* C10: on an Open session the bit operations and the multi operations with
\* a bit > 7 fail with RequestedBitOutOfRange: nothing is sent, the PDU
\* budgets do not decide the error, pdu_ref and the closed flag are as before.
C10_BitCheckedFirst ==
    C10_BitOutOfRange =>
        /\ last.res = Err(Error("RequestedBitOutOfRange"))
        /\ last.reqs = <<>>
        /\ pdu_number = last.pdu_before
        /\ ~closed

\* a multi write with a bit above 7 that the item budget would have refused
C10_Witness ==
    /\ C10_BitOutOfRange /\ last.op = "db_write_multi"
    /\ Len(last.args) * 18 + 4 > pdu_length
    /\ last.res = Err(Error("RequestedBitOutOfRange"))

(***************************************************************************)
(* client/pooled.rs and the S7Pool operations of client/read.rs: a pool    *)
(* of sessions called by concurrent tasks.  A pool operation checks a      *)
(* session out (self.0.get()), runs the S7Client operation on it and gives *)
(* the session back when it returns.  The steps of a task are the          *)
(* stretches of code between its suspension points: the checkout, the      *)
(* creation of a session, the checks and the sending of the request, the   *)
(* receiving of the response.  The pool itself is the deadpool managed     *)
(* pool: max_size permits, one held by every checked-out session, a FIFO   *)
(* queue of idle sessions, recycle() on every idle session it hands out.   *)
(***************************************************************************)
\* tasks that call the pool, one operation each
NCallers == 4
\* S7Pool::new: builder(mgr).max_size(3)
max_size == 3

Tasks == 1 .. NCallers

\* the pdu_length the PLC of the pool negotiates
PoolPduLength == CHOOSE n \in PduLengths : \A m \in PduLengths : m <= n

\* the operations the tasks call: S7Pool::db_read(1, 0, 1),
\* S7Pool::db_read_bit(1, 0, 8), S7Pool::db_read_multi([Bit(1, 0, 9)])
PoolOps ==
    { [name |-> "db_read", access |-> ReadBytes(PlcDb, 0, 1)],
      [name |-> "db_read_bit", access |-> ReadBit(PlcDb, 0, 8)],
      [name |-> "db_read_multi", access |-> ReadBit(PlcDb, 0, 9)] }

\* a pool that never makes a checkout wait
no_permit_never == FALSE

\* a pool whose permits are not given back when a handle is dropped
no_permit_leak == Cardinality({ c \in Tasks : tasks[c].pc # "start" }) >= max_size

\* the semaphore of the pool: a checkout waits while max_size tasks hold a
\* permit, and a task holds one from its checkout until its handle is dropped
no_permit ==
    Cardinality({ c \in Tasks : tasks[c].pc \in {"creating", "holding", "awaiting"} })
        >= max_size

\* Option<S7Info> of the manager when it is None
NoInfo == [some |-> FALSE, pdu_length |-> 0, max_amq_caller |-> 0, max_amq_calle |-> 0]

\* S7Info::from(&client) in a Some
S7Info_from(client) ==
    [some |-> TRUE, pdu_length |-> client.pdu_length,
     max_amq_caller |-> client.max_amq_caller, max_amq_calle |-> client.max_amq_calle]

\* what a handshake on a connection of the pool can give: the PLC's
\* negotiation parameters, or an error of the dial or of the handshake
HandshakeFailed == [ok |-> FALSE, pdu_length |-> 0, max_amq_caller |-> 0, max_amq_calle |-> 0]

PlcNegotiations(lengths) ==
    { [ok |-> TRUE, pdu_length |-> l, max_amq_caller |-> l \div 22, max_amq_calle |-> l \div 22] :
          l \in lengths }

\* S7Client::connect on a session of the pool: a handshake on its connection,
\* whose values the session stores
S7Client_connect(client, answer) ==
    [client EXCEPT !.pdu_length = answer.pdu_length,
                   !.max_amq_caller = answer.max_amq_caller,
                   !.max_amq_calle = answer.max_amq_calle,
                   !.closed = FALSE,
                   !.negotiated = answer.pdu_length,
                   !.handshakes = @ + 1]

\* a manager that shakes hands once, in S7Client::new, and caches those values
S7PoolManager_create_once(s7_info, client, answers) ==
    IF ~answers[1].ok THEN [ok |-> FALSE, client |-> client, s7_info |-> s7_info]
    ELSE IF s7_info.some
    THEN [ok |-> TRUE,
          client |-> [S7Client_connect(client, answers[1]) EXCEPT
                         !.pdu_length = s7_info.pdu_length,
                         !.max_amq_calle = s7_info.max_amq_calle,
                         !.max_amq_caller = s7_info.max_amq_caller],
          s7_info |-> s7_info]
    ELSE [ok |-> TRUE, client |-> S7Client_connect(client, answers[1]),
          s7_info |-> S7Info_from(S7Client_connect(client, answers[1]))]

\* S7PoolManager::create: S7Client::new dials and shakes hands (answers[1]);
\* with cached values the session's own are overwritten by them, without
\* them connect() shakes hands once more (answers[2]) and what it stored is
\* cached.  An error of either handshake is returned.
S7PoolManager_create(s7_info, client, answers) ==
    IF ~answers[1].ok THEN [ok |-> FALSE, client |-> client, s7_info |-> s7_info]
    ELSE IF s7_info.some
    THEN [ok |-> TRUE,
          client |-> [S7Client_connect(client, answers[1]) EXCEPT
                         !.pdu_length = s7_info.pdu_length,
                         !.max_amq_calle = s7_info.max_amq_calle,
                         !.max_amq_caller = s7_info.max_amq_caller],
          s7_info |-> s7_info]
    ELSE IF ~answers[2].ok
    THEN [ok |-> FALSE, client |-> S7Client_connect(client, answers[1]), s7_info |-> s7_info]
    ELSE LET connected == S7Client_connect(S7Client_connect(client, answers[1]), answers[2])
         IN  [ok |-> TRUE, client |-> connected, s7_info |-> S7Info_from(connected)]

\* S7PoolManager::recycle: a session passes unless its pdu_length is 0, and a
\* session that does not pass clears the cached negotiation
recycle(client) == IF client.pdu_length = 0 THEN Err(Error("Recycle")) ELSE Ok(<<>>)

\* the idle queue is left as it is when a session is taken from it
take_idle_keep(idle) == idle

\* the idle queue after its first session has been taken from it
take_idle(idle) == Tail(idle)

\* the checkout's walk through the idle queue: the first session that passes
\* recycle is handed out, the ones before it are dropped; conn is 0 when no
\* idle session passes
RECURSIVE try_recycle(_, _, _)
try_recycle(idle, s7_info, dropped) ==
    IF idle = <<>> THEN [conn |-> 0, idle |-> idle, s7_info |-> s7_info, dropped |-> dropped]
    ELSE IF recycle(conns[Head(idle)]).ok
    THEN [conn |-> Head(idle), idle |-> take_idle(idle), s7_info |-> s7_info,
          dropped |-> dropped]
    ELSE try_recycle(Tail(idle), NoInfo, dropped \cup {Head(idle)})

\* a pool is built without any session (S7Pool::new); no task has called it
PoolNew ==
    [session |-> [live |-> FALSE, closed |-> TRUE, pdu_length |-> 0, pending |-> 0,
                  cancelled |-> FALSE, max_amq_caller |-> 0, max_amq_calle |-> 0,
                  negotiated |-> 0, handshakes |-> 0],
     task |-> [pc |-> "start", op |-> [name |-> "", access |-> ReadBytes(0, 0, 0)],
               conn |-> 0, dialled |-> FALSE],
     done |-> [op |-> "", res |-> Ok(<<>>), dialled |-> FALSE]]

PoolInit ==
    /\ pool = [idle |-> <<>>, s7_info |-> NoInfo, done |-> PoolNew.done]
    /\ conns = [c \in Tasks |-> PoolNew.session]
    /\ tasks = [c \in Tasks |-> PoolNew.task]
    /\ closed = TRUE /\ pdu_length = 0 /\ pdu_number = 0
    /\ mem = [a \in Areas |-> [i \in PlcAddrs |-> 0]]
    /\ last = <<>> /\ nReq = 0 /\ created = <<>> /\ rx = <<>> /\ trig = <<>>
    /\ enc = <<>> /\ stream = <<>>

\* the operation of task c returns res: its session, if it has one, goes back
\* to the end of the idle queue as the handle is dropped
Finish(c, res, sessions, idle, dialled) ==
    /\ tasks' = [tasks EXCEPT ![c] = [PoolNew.task EXCEPT !.pc = "done"]]
    /\ conns' = sessions
    /\ pool' = [pool EXCEPT
                  !.idle = IF tasks[c].conn = 0 THEN idle ELSE Append(idle, tasks[c].conn),
                  !.done = [op |-> tasks[c].op.name, res |-> res, dialled |-> dialled]]

\* self.0.get(): wait for a permit, then take the first idle session that
\* passes recycle, else go on to create one.  The tasks are alike and are
\* numbered in the order in which they call the pool.
checkout(c, ops) ==
    /\ tasks[c].pc = "start"
    /\ IF c = 1 THEN TRUE ELSE tasks[c - 1].pc # "start"
    /\ ~no_permit
    /\ \E op \in ops :
          LET got == try_recycle(pool.idle, pool.s7_info, {})
          IN  /\ tasks' = [tasks EXCEPT ![c] =
                             [pc |-> IF got.conn = 0 THEN "creating" ELSE "holding",
                              op |-> op, conn |-> got.conn, dialled |-> FALSE]]
              /\ pool' = [pool EXCEPT !.idle = got.idle, !.s7_info = got.s7_info]
              /\ conns' = [s \in Tasks |-> IF s \in got.dropped THEN PoolNew.session
                                             ELSE conns[s]]
    /\ UNCHANGED <<clientvars, created, rx, trig, enc, stream>>

\* S7PoolManager::create in the checkout of task c, on a connection that the
\* PLC answers with two of `answers`; the session takes the first free place.
\* A failure is the operation's error.
create(c, answers) ==
    /\ tasks[c].pc = "creating"
    /\ \E first \in answers, second \in answers :
          LET FreeSlot == CHOOSE s \in Tasks :
                              ~conns[s].live /\ \A t \in 1 .. s - 1 : conns[t].live
              made == S7PoolManager_create(pool.s7_info, PoolNew.session, <<first, second>>)
          IN
          IF made.ok
          THEN /\ conns' = [conns EXCEPT ![FreeSlot] = [made.client EXCEPT !.live = TRUE]]
               /\ pool' = [pool EXCEPT !.s7_info = made.s7_info]
               /\ tasks' = [tasks EXCEPT ![c] = [pc |-> "holding", op |-> @.op,
                                                 conn |-> FreeSlot, dialled |-> TRUE]]
          ELSE Finish(c, Err(Error("Pool")), conns, pool.idle, TRUE)
    /\ UNCHANGED <<clientvars, created, rx, trig, enc, stream>>

\* the checks of the operation on its session before anything is sent:
\* validate_connection_info, then verify_max_bit on the bit accesses
Preflight(op, is_closed) ==
    IF validate_connection_info(is_closed) # NoError THEN validate_connection_info(is_closed)
    ELSE IF op.name = "db_read" THEN NoError
    ELSE VerifyAll(<<op.access.bit>>)

\* the S7Client operation on the checked-out session, up to the sending of
\* its request; an error of the checks is returned at once
request(c) ==
    /\ tasks[c].pc = "holding"
    /\ LET s == tasks[c].conn
           e == Preflight(tasks[c].op, conns[s].closed)
       IN  IF e # NoError THEN Finish(c, Err(e), conns, pool.idle, tasks[c].dialled)
           ELSE /\ tasks' = [tasks EXCEPT ![c].pc = "awaiting"]
                /\ conns' = [conns EXCEPT ![s].pending = @ + 1]
                /\ UNCHANGED pool
    /\ UNCHANGED <<clientvars, created, rx, trig, enc, stream>>

\* the result read_area_single returns for db_read(1, 0, 1) on a session of
\* the pool, for each thing that can happen to the request: answered, timed
\* out, answered with an error in the header, answered with the response to
\* an earlier request
PoolReadResult ==
    [l \in PduLengths |->
     [env \in {OkEnv, Env("ok", "timeout", "ok", FALSE), Env("ok", "ok", "hdr_error", FALSE),
              Env("ok", "ok", "stale", FALSE)} |->
        read_area_single([a \in Areas |-> [i \in PlcAddrs |-> 0]], l, 0,
                         AreaDataBlock, ReadBytes(PlcDb, 0, 1),
                         [i \in 1 .. MaxLen |-> env]).res]]

\* the rest of the operation: the response is received and checked, a
\* connection error closes the session (read.rs 49-56), the result is
\* returned and the session goes back to the pool.  The response a session
\* reads after an operation on it was dropped midway can be the one of the
\* dropped request.
response(c, envs) ==
    /\ tasks[c].pc = "awaiting"
    /\ LET s == tasks[c].conn
       IN  \E env \in envs \cup (IF conns[s].cancelled
                                   THEN {Env("ok", "ok", "stale", FALSE)} ELSE {}) :
              LET res == PoolReadResult[conns[s].pdu_length][env]
                  nowClosed == IF ~res.ok /\ is_connection_error(res.err)
                               THEN TRUE ELSE conns[s].closed
              IN  Finish(c, res,
                         [conns EXCEPT ![s].closed = nowClosed, ![s].pending = @ - 1],
                         pool.idle, tasks[c].dialled)
    /\ UNCHANGED <<clientvars, created, rx, trig, enc, stream>>

\* the future of the operation is dropped while it waits for the response:
\* nothing of the operation runs any more, the handle is dropped and the
\* session goes back to the pool as it is; no result is returned
cancel(c) ==
    /\ tasks[c].pc = "awaiting"
    /\ Finish(c, Err(Error("Cancelled")),
              [conns EXCEPT ![tasks[c].conn].cancelled = TRUE], pool.idle, tasks[c].dialled)
    /\ UNCHANGED <<clientvars, created, rx, trig, enc, stream>>

\* the steps of the tasks that call the pool: a dial may fail, a response
\* may not arrive in time or may carry an error in its header
PoolNext ==
    \/ \E c \in Tasks : checkout(c, PoolOps)
    \/ \E c \in Tasks : create(c, PlcNegotiations({PoolPduLength}) \cup {HandshakeFailed})
    \/ \E c \in Tasks : request(c)
    \/ \E c \in Tasks :
          response(c, {OkEnv, Env("ok", "timeout", "ok", FALSE),
                       Env("ok", "ok", "hdr_error", FALSE)})

PoolSpec == PoolInit /\ [][PoolNext]_vars

\* the pool with operations that are dropped midway
PoolCancelNext == PoolNext \/ \E c \in Tasks : cancel(c)

PoolCancelSpec == PoolInit /\ [][PoolCancelNext]_vars

\* the pool of the tasks that all call db_read while the PLC is reachable and
\* answers every request
TaskStep(c) ==
    \/ checkout(c, {[name |-> "db_read", access |-> ReadBytes(PlcDb, 0, 1)]})
    \/ create(c, PlcNegotiations({PoolPduLength}))
    \/ request(c)
    \/ response(c, {OkEnv})

PoolLiveNext == \E c \in Tasks : TaskStep(c)

\* every task that can take a step is scheduled (the tokio runtime runs every
\* ready task, the pool's semaphore wakes a waiting checkout)
PoolLiveSpec ==
    PoolInit /\ [][PoolLiveNext]_vars /\ \A c \in Tasks : WF_vars(TaskStep(c))

\* the pool with a PLC that negotiates different values on different
\* connections; the tasks call db_read, a response may not arrive in time
PoolVaryNext ==
    \/ \E c \in Tasks : checkout(c, {[name |-> "db_read", access |-> ReadBytes(PlcDb, 0, 1)]})
    \/ \E c \in Tasks : create(c, PlcNegotiations(PduLengths) \cup {HandshakeFailed})
    \/ \E c \in Tasks : request(c)
    \/ \E c \in Tasks : response(c, {OkEnv, Env("ok", "timeout", "ok", FALSE)})

PoolVarySpec == PoolInit /\ [][PoolVaryNext]_vars

(***************************************************************************)
(* Properties of the pool.                                                 *)
(***************************************************************************)
\* C11 (as stated): called through the pool, db_read_bit(1, 0, 8) and
\* db_read_multi([Bit(1, 0, 9)]) return RequestedBitOutOfRange, and no
\* connection was dialled and nothing was sent before the error is returned,
\* whatever the state of the pool.
C11_BitErrorWithoutTraffic ==
    pool.done.op \in {"db_read_bit", "db_read_multi"} =>
        /\ pool.done.res = Err(Error("RequestedBitOutOfRange"))
        /\ ~pool.done.dialled

\* db_read_bit(1, 0, 8) on a pool without an idle session has returned
\* RequestedBitOutOfRange after a session was dialled and shaken hands with
C11_DialledFirst ==
    /\ pool.done.op = "db_read_bit"
    /\ pool.done.res = Err(Error("RequestedBitOutOfRange"))
    /\ pool.done.dialled

\* C12 (as stated): a session whose closed flag is set is never handed out by
\* a checkout: no task comes out of self.0.get() holding a closed session.
C12_ClosedNeverHandedOut ==
    \A c \in Tasks : tasks[c].pc = "holding" => ~conns[tasks[c].conn].closed

\* a closed session sits in the idle queue, was not dropped, and the
\* operation that last checked it out failed with "Connection is closed"
C12_ClosedReused ==
    /\ pool.done.res = ClosedError /\ ~pool.done.dialled
    /\ \E i \in 1 .. Len(pool.idle) :
          conns[pool.idle[i]].live /\ conns[pool.idle[i]].closed

\* every place of the pool is taken by a session that is closed and passes
\* recycle: each checkout from now on hands out one of them
C13_Stuck ==
    Cardinality({ s \in Tasks : conns[s].live /\ conns[s].closed /\ recycle(conns[s]).ok })
        >= max_size

\* C13 (as stated): the pool recovers from transport errors: it never reaches
\* a state in which every later operation fails with "Connection is closed".
C13_NeverStuck == ~C13_Stuck

\* from then on the pool stays as it is: no session is dropped, opened or
\* created, and every operation that returns fails with "Connection is closed"
C13_StuckForever ==
    [][C13_Stuck => /\ C13_Stuck'
                    /\ pool'.done # pool.done => pool'.done.res = ClosedError]_vars

\* the pool is full of closed sessions and an operation called on it has
\* failed with "Connection is closed" without a connection being dialled
C13_StuckCallFails ==
    /\ C13_Stuck
    /\ pool.done.op = "db_read" /\ pool.done.res = ClosedError /\ ~pool.done.dialled
    /\ Len(pool.idle) = max_size

\* C14: the sessions of a pool that exist (idle or checked out) are never
\* more than max_size = 3, whatever the number of tasks that call the pool;
\* a session comes into being only in the create step of a task, and a task
\* goes on to create only from a checkout that found the idle queue empty.
C14_AtMostMaxSize ==
    [][ /\ Cardinality({ s \in Tasks : conns'[s].live }) <= max_size
        /\ \A s \in Tasks :
              (~conns[s].live /\ conns'[s].live) =>
                  \E c \in Tasks : /\ tasks[c].pc = "creating"
                                   /\ tasks'[c].pc = "holding" /\ tasks'[c].conn = s
        /\ \A c \in Tasks :
              (tasks[c].pc # "creating" /\ tasks'[c].pc = "creating") =>
                  tasks[c].pc = "start" /\ pool.idle = <<>> ]_vars

\* the pool holds three sessions, all checked out, and a fourth task waits
\* at its checkout
C14_Witness ==
    /\ Cardinality({ s \in Tasks : conns[s].live }) = max_size
    /\ pool.idle = <<>>
    /\ \E c \in 2 .. NCallers : tasks[c].pc = "start" /\ tasks[c - 1].pc = "awaiting"

\* C15: in every interleaving of concurrent pool operations a session is held
\* by at most one operation at a time and is not idle while it is held, and
\* on each session at most one request is outstanding: the requests sent on
\* it and not yet answered or failed are those of the one operation that
\* holds it and waits for its response.
C15_ExclusiveAndSerial ==
    /\ \A c, d \in Tasks :
          (c # d /\ tasks[c].conn # 0) => tasks[c].conn # tasks[d].conn
    /\ \A c \in Tasks, i \in 1 .. Len(pool.idle) : tasks[c].conn # pool.idle[i]
    /\ \A s \in Tasks :
          /\ conns[s].pending <= 1
          /\ conns[s].pending =
                Cardinality({ c \in Tasks : tasks[c].pc = "awaiting" /\ tasks[c].conn = s })

\* two operations wait for their responses on two sessions at the same time
\* while a third holds a session that an earlier operation has given back
C15_Witness ==
    \E c, d, e \in Tasks :
        /\ c # d
        /\ tasks[c].pc = "awaiting" /\ tasks[d].pc = "awaiting"
        /\ conns[tasks[c].conn].pending = 1 /\ conns[tasks[d].conn].pending = 1
        /\ tasks[e].pc = "holding" /\ ~tasks[e].dialled

\* C16: when more db_read operations are called concurrently on a pool than
\* it has places (4 tasks, capacity 3) and the PLC answers every request,
\* every operation returns in the end and none returns an error: a task
\* beyond the capacity waits at its checkout until a session is given back.
C16_AllComplete ==
    /\ <>(\A c \in Tasks : tasks[c].pc = "done")
    /\ [](pool.done.res.ok)

\* three operations wait for their responses on the pool's three sessions
\* and the last task waits at its checkout for a permit
C16_Witness ==
    /\ no_permit
    /\ tasks[NCallers].pc = "start"
    /\ \A c \in 1 .. max_size : tasks[c].pc = "awaiting"

\* C17 (as stated): a session on which an operation was dropped after its
\* request was sent and before its response was received is marked Closed.
C17_CancelledIsClosed ==
    \A s \in Tasks : (conns[s].live /\ conns[s].cancelled) => conns[s].closed

\* the next operation on such a session was handed the session open, sent
\* its request on it, read the response to the dropped request and failed
\* with ResponseDoesNotBelongToCurrentPDU; the session is idle and open again
C17_NextOperationExchanges ==
    /\ pool.done.op = "db_read"
    /\ pool.done.res = Err(Error("ResponseDoesNotBelongToCurrentPDU"))
    /\ \E i \in 1 .. Len(pool.idle) :
          LET s == pool.idle[i]
          IN  conns[s].cancelled /\ ~conns[s].closed /\ conns[s].pending = 1

(***************************************************************************)
(* S7Client::new step by step: the TCP dial, the COTP Connection Request   *)
(* and its answer, the S7 negotiation and its answer.  `created` holds the *)
(* course of one call: the frames sent, the answers received, and the      *)
(* fields of the client.                                                   *)
(***************************************************************************)
\* S7Client::new has been called and nothing has happened yet
NewInit ==
    /\ \E s7_type \in S7Types :
          created = [phase |-> "called", wire |-> <<>>, answers |-> <<>>, res |-> Ok(<<>>),
                     closed |-> TRUE, pdu_length |-> 0, max_amq_caller |-> 0,
                     max_amq_calle |-> 0, s7_type |-> s7_type]
    /\ pool = <<>> /\ conns = <<>> /\ tasks = <<>>
    /\ closed = TRUE /\ pdu_length = 0 /\ pdu_number = 0 /\ mem = <<>>
    /\ last = <<>> /\ nReq = 0 /\ rx = <<>> /\ trig = <<>>
    /\ enc = <<>> /\ stream = <<>>

\* the call returns an error: the client, if it was built, is dropped
NewFails(e, wire, answers) ==
    created' = [created EXCEPT !.phase = "failed", !.res = Err(e), !.wire = wire,
                               !.answers = answers]

\* TcpStream::connect under the connection timeout; then the client is built
\* closed, with pdu_length 0
new_dial ==
    /\ created.phase = "called"
    /\ \E outcome \in {"ok", "timeout", "refused"} :
          IF outcome = "ok" THEN created' = [created EXCEPT !.phase = "dialled"]
          ELSE IF outcome = "timeout"
          THEN NewFails(ConnectionError("Error on connecting: Timed out"), <<>>, <<>>)
          ELSE NewFails(Error("IO"), <<>>, <<>>)
    /\ UNCHANGED <<clientvars, poolvars, rx, trig, enc, stream>>

\* tcp::connect: the Connection Request is written and its answer read
new_connection_request ==
    /\ created.phase = "dialled"
    /\ \E answer \in PlcAnswers.cr :
          LET wire == Append(created.wire, [kind |-> "CR", bytes |-> IsoControlPDU_bytes(created.s7_type)])
              e == connection_confirm(answer,
                                      req_ok(COTPConnection_try_from(answer.bytes).pdu_type,
                                             PDU_TYPE_CC))
          IN  IF e # NoError THEN NewFails(e, wire, <<answer>>)
              ELSE created' = [created EXCEPT !.phase = "confirmed", !.wire = wire,
                                              !.answers = <<answer>>]
    /\ UNCHANGED <<clientvars, poolvars, rx, trig, enc, stream>>

\* negotiate_connection_params and the rest of S7Client::connect: the
\* negotiation request is exchanged, the returned values are stored and the
\* client is open
new_negotiate ==
    /\ created.phase = "confirmed"
    /\ \E answer \in PlcAnswers.negotiate :
          LET wire == Append(created.wire,
                             [kind |-> "Negotiation",
                              bytes |-> NegotiatePDUParameters_bytes(
                                            [max_amq_caller |-> 256, max_amq_calle |-> 256,
                                             pdu_length |-> 480])])
              answers == Append(created.answers, answer)
              params == negotiate_connection_params(answer)
          IN  IF ~params.ok THEN NewFails(params.err, wire, answers)
              ELSE created' = [phase |-> "open", wire |-> wire, answers |-> answers,
                               res |-> Ok(<<>>), closed |-> FALSE,
                               pdu_length |-> params.pdu_length,
                               max_amq_caller |-> params.max_amq_caller,
                               max_amq_calle |-> params.max_amq_calle,
                               s7_type |-> created.s7_type]
    /\ UNCHANGED <<clientvars, poolvars, rx, trig, enc, stream>>

NewNext == new_dial \/ new_connection_request \/ new_negotiate

NewSpec == NewInit /\ [][NewNext]_vars


(***************************************************************************)
(* Properties of S7Client::new                                             *)
(***************************************************************************)
\* the steps come in order: an open session has sent the Connection Request
\* and then the negotiation request, was answered by a Connection Confirm
\* and by AckData, and the call returned Ok
C18_InOrder ==
    created.phase = "open" =>
        /\ created.res.ok /\ ~created.closed
        /\ Len(created.wire) = 2
        /\ created.wire[1] = [kind |-> "CR", bytes |-> IsoControlPDU_bytes(created.s7_type)]
        /\ created.wire[2].kind = "Negotiation"
        /\ created.answers[1].fault = "" /\ created.answers[1].bytes[2] = PDU_TYPE_CC
        /\ created.answers[2].fault = "" /\ created.answers[2].rosctr = RosctrAckData

\* the open session holds the three values the PLC returned: written out
\* again, they are the parameter block the PLC sent
C18_HoldsReturned ==
    created.phase = "open" =>
        created.answers[2].bytes = NegotiatePDUParameters_bytes(created)

\* a frame that answers the Connection Request with another pdu_type fails
\* the call with ISOResponse(InvalidPDU), and only the Connection Request
\* was sent
C18_NotConfirmed ==
    (/\ Len(created.answers) >= 1
     /\ created.answers[1].fault = ""
     /\ created.answers[1].bytes[2] # PDU_TYPE_CC) =>
        /\ created.res = Err(ISOResponse("InvalidPDU"))
        /\ Len(created.wire) = 1

\* a failed call leaves no open session
C18_NoSessionOnFailure ==
    created.phase = "failed" => ~created.res.ok /\ created.closed

DisconnectConfirmed(answer) ==
    answer.fault = "" /\ Len(answer.bytes) >= 7 /\ answer.bytes[2] = PDU_TYPE_DC

\* C19: disconnect sends one frame, a COTP Disconnect Request with pdu_type
\* 0x80 and reason 128; when a Disconnect Confirm (0xC0) is received it
\* returns Ok and the session is closed; on any other answer and on an I/O
\* error it returns an error and the closed flag is as it was; a read or
\* write called right after a successful disconnect fails with
\* Connection("Connection is closed") and sends nothing
C19_DisconnectClosesOnConfirm ==
    [][/\ last'.op = "disconnect" =>
            /\ Len(last'.reqs) = 1
            /\ last'.reqs[1].bytes[6] = 128 /\ last'.reqs[1].bytes[11] = 128
            /\ Len(last'.reqs[1].bytes) = last'.reqs[1].bytes[3] * U8 + last'.reqs[1].bytes[4]
            /\ IF DisconnectConfirmed(last'.envs[1])
               THEN last'.res = Ok(<<>>) /\ closed'
               ELSE ~last'.res.ok /\ closed' = closed
            /\ pdu_length' = pdu_length /\ mem' = mem
       /\ (last.op = "disconnect" /\ last.res.ok /\ last'.op \in DataOps) =>
            /\ last'.res = ClosedError /\ last'.reqs = <<>>
            /\ closed' /\ mem' = mem]_vars

\* C19: an open session was closed by a disconnect that was answered with a
\* Disconnect Confirm
C19_Witness ==
    /\ last.op = "disconnect" /\ ~last.closed_before
    /\ DisconnectConfirmed(last.envs[1])
    /\ last.res.ok /\ closed


\* the errors of the protocol header, of an item and of a conversion
KeptOpenErrors ==
    {"S7ProtocolError", "RequestNotAcknowledged", "ResponseDoesNotBelongToCurrentPDU",
     "DataItemError", "TryFrom"}

\* the operations on one item
SingleOps == DataOps \ {"db_read_multi", "db_write_multi"}

\* the return code the PLC gave to the item of the call's last request
LastItemCode == PlcCheck(PlcRequestItems(last.reqs[Len(last.reqs)])[1])

\* C20: a read or write that fails with S7ProtocolError,
\* RequestNotAcknowledged, ResponseDoesNotBelongToCurrentPDU, DataItemError
\* or TryFrom, or that fails before it sends anything, leaves the closed
\* flag as it was, so an open session stays open; when the PLC answers the
\* item of a single-item operation with an error code, the operation
\* returns DataItemError of that code
C20_NonConnectionErrorKeepsFlag ==
    /\ (/\ last.op \in DataOps /\ ~last.res.ok
        /\ last.res.err.tag \in KeptOpenErrors \/ last.reqs = <<>>) =>
            closed = last.closed_before
    /\ (/\ last.op \in SingleOps /\ last.reqs # <<>>
        /\ \A i \in 1 .. Len(last.reqs) : last.envs[i] = OkEnv
        /\ LastItemCode # ItemSuccess) =>
            last.res = Err(DataItemError(LastItemCode))

\* C20: a db_read on an open session was answered with the item error
\* ObjectDoesNotExist, returned it, and the session is still open
C20_Witness ==
    /\ last.op = "db_read" /\ ~last.closed_before
    /\ last.reqs # <<>> /\ LastItemCode = 10
    /\ last.res = Err(DataItemError(10))
    /\ ~closed


(***************************************************************************)
(* connection/tcp.rs: exchange_buffer on the byte stream.  send_buffer     *)
(* writes one TPKT record, recv_buffer reads TPKT records until a COTP     *)
(* data header says it is the last; each phase runs under the 4 second     *)
(* timeout.  `rx` holds the course of one call: the bytes sent, the        *)
(* records read so far, the accumulator and the result.                    *)
(***************************************************************************)
MaxFrags == 3
PDU_TYPE_DT == 240
PDU_EOT == 128

\* a TPKT record with a COTP data header and a payload, as bytes; with
\* ISO_TCP_VERSION, PDU_TYPE_DT and PDU_EOT it is what send_buffer writes
DataFrame(version, pdu_type, eot_num, payload) ==
    <<version, 0>> \o U16Bytes(TTPKTHeaderLen + 3 + Len(payload))
    \o <<3 - 1, pdu_type, eot_num>> \o payload

\* the records the PLC can send in answer: fragments that are and are not
\* the last, with the low bits of eot_num used or not, with another TPKT
\* version, with another pdu_type; and reads that fail
PlcFrames ==
    { PlcAnswer("", 0, DataFrame(ISO_TCP_VERSION, PDU_TYPE_DT, e, p)) :
          e \in {0, PDU_EOT, PDU_EOT + 1}, p \in {<<1>>, <<2, 3>>} }
    \cup { PlcAnswer("", 0, DataFrame(2, PDU_TYPE_DT, e, <<1>>)) : e \in {0, PDU_EOT} }
    \cup { PlcAnswer("", 0, DataFrame(ISO_TCP_VERSION, PDU_TYPE_CC, PDU_EOT, <<1>>)),
           PlcAnswer("io", 0, <<>>), PlcAnswer("size", 0, <<>>) }

\* a receiver that takes every fragment with bit 7 of eot_num set as the last
is_last_bit7(eot_num) == eot_num >= PDU_EOT

\* COTPData::is_last
is_last(eot_num) == eot_num = PDU_EOT

\* a loop body that keeps only the newest payload
recv_step_replace(data_buffer, frame) ==
    IF TransportError(frame) # NoError
    THEN [err |-> TransportError(frame), data_buffer |-> data_buffer, is_last |-> FALSE]
    ELSE IF req_ok(frame.bytes[TTPKTHeaderLen + 2], PDU_TYPE_DT) # NoError
    THEN [err |-> req_ok(frame.bytes[TTPKTHeaderLen + 2], PDU_TYPE_DT),
          data_buffer |-> data_buffer, is_last |-> FALSE]
    ELSE [err |-> NoError,
          data_buffer |-> Drop(frame.bytes, TTPKTHeaderLen + 3),
          is_last |-> is_last(frame.bytes[TTPKTHeaderLen + 3])]

\* recv_buffer, one turn of the loop: read_tpkt_header, which parses the
\* four bytes without looking at the version, read_tpkt_data, the COTP
\* header from the first three bytes, req_ok, then the rest is appended
recv_step(data_buffer, frame) ==
    IF TransportError(frame) # NoError
    THEN [err |-> TransportError(frame), data_buffer |-> data_buffer, is_last |-> FALSE]
    ELSE IF req_ok(frame.bytes[TTPKTHeaderLen + 2], PDU_TYPE_DT) # NoError
    THEN [err |-> req_ok(frame.bytes[TTPKTHeaderLen + 2], PDU_TYPE_DT),
          data_buffer |-> data_buffer, is_last |-> FALSE]
    ELSE [err |-> NoError,
          data_buffer |-> data_buffer \o Drop(frame.bytes, TTPKTHeaderLen + 3),
          is_last |-> is_last(frame.bytes[TTPKTHeaderLen + 3])]

\* a timeout around the send only
timed_phases_send == {"sending"}

\* the phases of exchange_buffer that run inside timeout(..)
timed_phases == {"sending", "receiving"}

\* exchange_buffer has been called with the request `data`
RecvInit ==
    /\ rx = [phase |-> "sending", wire |-> <<>>, frames |-> <<>>, data_buffer |-> <<>>,
             res |-> Err(NoError)]
    /\ pool = <<>> /\ conns = <<>> /\ tasks = <<>> /\ created = <<>> /\ trig = <<>>
    /\ enc = <<>> /\ stream = <<>>
    /\ closed = FALSE /\ pdu_length = 0 /\ pdu_number = 0 /\ mem = <<>>
    /\ last = <<>> /\ nReq = 0

\* an exchange that returns the error of a failed send
after_send_checked(written) ==
    IF written THEN [phase |-> "receiving", res |-> Err(NoError)]
    ELSE [phase |-> "done", res |-> Err(Error("IO"))]

\* exchange_buffer after send_buffer has returned inside its timeout:
\* Ok(_) => {} holds for Ok(Ok(())) and for Ok(Err(e)), the receive phase is
\* next and nothing is returned yet
after_send(written) == [phase |-> "receiving", res |-> Err(NoError)]

\* send_buffer: the request is written as one record, or write_all fails
\* and nothing is written
send_buffer ==
    /\ rx.phase = "sending"
    /\ \E written \in BOOLEAN :
          rx' = [rx EXCEPT !.phase = after_send(written).phase,
                           !.res = after_send(written).res,
                           !.wire = IF written
                                    THEN DataFrame(ISO_TCP_VERSION, PDU_TYPE_DT, PDU_EOT,
                                                   <<1, 2, 3>>)
                                    ELSE <<>>]
    /\ UNCHANGED <<clientvars, poolvars, created, trig, enc, stream>>

\* recv_buffer: one record arrives and one turn of the loop runs; the call
\* returns the accumulator after the last fragment, or the error
recv_buffer ==
    /\ rx.phase = "receiving"
    /\ Len(rx.frames) < MaxFrags
    /\ \E frame \in PlcFrames :
          LET step == recv_step(rx.data_buffer, frame)
          IN  rx' = [rx EXCEPT
                        !.frames = Append(@, frame),
                        !.data_buffer = IF step.err # NoError THEN <<>> ELSE step.data_buffer,
                        !.phase = IF step.err # NoError \/ step.is_last THEN "done" ELSE @,
                        !.res = IF step.err # NoError THEN Err(step.err)
                                ELSE IF step.is_last THEN Ok(step.data_buffer) ELSE @]
    /\ UNCHANGED <<clientvars, poolvars, created, trig, enc, stream>>

\* the timer of timeout(DATA_SEND_AND_RECEIVE_TIMEOUT, ..) fires: the phase
\* is dropped with what it has accumulated
exchange_timeout ==
    /\ rx.phase \in timed_phases
    /\ rx' = [rx EXCEPT !.phase = "done", !.data_buffer = <<>>,
                        !.res = Err(Error("DataExchangeTimedOut"))]
    /\ UNCHANGED <<clientvars, poolvars, created, trig, enc, stream>>

RecvNext == send_buffer \/ recv_buffer \/ exchange_timeout

\* the timer is a tokio timer: once armed it fires unless the phase ends
RecvSpec == RecvInit /\ [][RecvNext]_vars /\ WF_vars(exchange_timeout)


(***************************************************************************)
(* Properties of the receive path                                          *)
(***************************************************************************)
\* the payloads of the records read so far, one after the other
Payloads == Concat([i \in 1 .. Len(rx.frames) |-> Drop(rx.frames[i].bytes, TTPKTHeaderLen + 3)])

\* the records read so far are the fragments of one response: COTP data
\* records, the last with eot_num PDU_EOT, the ones before it with eot_num 0
Fragmented ==
    /\ Len(rx.frames) >= 1
    /\ \A i \in 1 .. Len(rx.frames) :
          /\ rx.frames[i].fault = ""
          /\ rx.frames[i].bytes[1] = ISO_TCP_VERSION
          /\ rx.frames[i].bytes[TTPKTHeaderLen + 2] = PDU_TYPE_DT
          /\ rx.frames[i].bytes[TTPKTHeaderLen + 3] =
                 IF i = Len(rx.frames) THEN PDU_EOT ELSE 0

\* C21: a response that arrived as K >= 1 fragments with EOT on the last one
\* only is returned as the payloads after the 3-byte COTP headers, put
\* together in the order of arrival, which is what the same response sent
\* as one record gives; and as long as the call has not ended nothing has
\* been returned, and what is returned as Ok ended with an EOT fragment
C21_Reassembled ==
    /\ Fragmented =>
          /\ rx.phase = "done" /\ rx.res = Ok(Payloads)
          /\ LET single == recv_step(<<>>, PlcAnswer("", 0,
                               DataFrame(ISO_TCP_VERSION, PDU_TYPE_DT, PDU_EOT, Payloads)))
             IN  single.err = NoError /\ single.is_last /\ single.data_buffer = rx.res.data
    /\ rx.phase # "done" => rx.res = Err(NoError)
    /\ rx.res.ok => is_last(rx.frames[Len(rx.frames)].bytes[TTPKTHeaderLen + 3])

\* C21: a response of three fragments has been put together
C21_Witness ==
    /\ Fragmented /\ Len(rx.frames) = 3
    /\ rx.res = Ok(<<1, 2, 3, 1>>)


\* the PLC has sent nothing, or only data fragments without EOT
NoFinalFragment ==
    \A i \in 1 .. Len(rx.frames) :
        /\ rx.frames[i].fault = ""
        /\ rx.frames[i].bytes[TTPKTHeaderLen + 2] = PDU_TYPE_DT
        /\ rx.frames[i].bytes[TTPKTHeaderLen + 3] < PDU_EOT

\* C22: every data exchange ends, and one in which the PLC stays silent or
\* sends only fragments without EOT ends with DataExchangeTimedOut
C22_ExchangeTerminates ==
    <>[](/\ rx.phase = "done"
         /\ NoFinalFragment => rx.res = Err(Error("DataExchangeTimedOut")))

\* C22: the PLC sent two fragments without EOT and the exchange timed out
C22_Witness ==
    /\ rx.phase = "done" /\ Len(rx.frames) = 2 /\ NoFinalFragment
    /\ rx.res = Err(Error("DataExchangeTimedOut"))


\* C29: a fragment is taken as the last one exactly when bit 7 of its
\* eot_num is set, whatever its low seven bits; a data fragment with bit 7
\* set ends the receive loop, and the accumulator is returned
C29_Bit7EndsLoop ==
    /\ (/\ Len(rx.frames) >= 1
        /\ \A i \in 1 .. Len(rx.frames) :
              /\ rx.frames[i].fault = ""
              /\ rx.frames[i].bytes[TTPKTHeaderLen + 2] = PDU_TYPE_DT
        /\ is_last_bit7(rx.frames[Len(rx.frames)].bytes[TTPKTHeaderLen + 3])
        /\ \A i \in 1 .. Len(rx.frames) - 1 :
              ~is_last_bit7(rx.frames[i].bytes[TTPKTHeaderLen + 3])) =>
            rx.phase = "done" /\ rx.res = Ok(Payloads)

\* C29: the only fragment had eot_num 129, the loop went on waiting and the
\* exchange timed out
C29_LowBitsKeepWaiting ==
    /\ Len(rx.frames) = 1 /\ rx.frames[1].fault = ""
    /\ rx.frames[1].bytes[TTPKTHeaderLen + 3] = PDU_EOT + 1
    /\ rx.phase = "done" /\ rx.res = Err(Error("DataExchangeTimedOut"))

\* C30: a record whose TPKT version is not 3 is rejected: the call ends
\* with an error, and nothing of the record is appended or returned
C30_VersionRejected ==
    (\E i \in 1 .. Len(rx.frames) :
        rx.frames[i].fault = "" /\ rx.frames[i].bytes[1] # ISO_TCP_VERSION) =>
        rx.phase = "done" /\ ~rx.res.ok /\ rx.data_buffer = <<>>

\* C30: the payload of a record of version 2 was returned as the response
C30_VersionAccepted ==
    /\ Len(rx.frames) = 1 /\ rx.frames[1].fault = ""
    /\ rx.frames[1].bytes[1] = 2
    /\ rx.phase = "done" /\ rx.res = Ok(Drop(rx.frames[1].bytes, TTPKTHeaderLen + 3))


(***************************************************************************)
(* client/triggers.rs: TriggerCollection.  `trig` holds the collection     *)
(* (value_ids, plc_values, stored_values), the result of the last call,    *)
(* and of the last update the values the PLC returned and the              *)
(* stored_values before it.                                                *)
(***************************************************************************)
MaxUpdates == 3

None == [some |-> FALSE, val |-> FALSE]
Some(b) == [some |-> TRUE, val |-> b]

\* the ids a caller can ask for; "c" is in no collection
TriggerIds == {"a", "b", "c", "d"}

\* the lists given to the constructor: bits only, with ids that differ or
\* not, and lists with a Bytes access in each place
TriggerLists ==
    { <<>>,
      <<<<"a", ReadBit(1, 0, 1)>>>>,
      <<<<"a", ReadBit(1, 0, 1)>>, <<"b", ReadBit(1, 0, 2)>>>>,
      <<<<"a", ReadBit(1, 0, 1)>>, <<"a", ReadBit(1, 0, 2)>>>>,
      <<<<"a", ReadBit(1, 0, 1)>>, <<"b", ReadBit(1, 0, 2)>>, <<"d", ReadBit(1, 0, 3)>>>>,
      <<<<"a", ReadBytes(1, 0, 1)>>>>,
      <<<<"a", ReadBytes(1, 0, 1)>>, <<"b", ReadBit(1, 0, 2)>>>>,
      <<<<"a", ReadBit(1, 0, 1)>>, <<"b", ReadBytes(1, 0, 1)>>>>,
      <<<<"a", ReadBit(1, 0, 1)>>, <<"b", ReadBit(1, 0, 2)>>, <<"c", ReadBytes(1, 0, 2)>>>> }

\* what pool.db_read_multi returns for n accesses: an error of the call, or
\* for each access a byte or an item error
MultiResults(n) ==
    { Err(Error("Pool")), Err(Error("DataExchangeTimedOut")) }
    \cup { OkItems(items) :
              items \in [1 .. n -> {Ok(<<0>>), Ok(<<1>>), Ok(<<128>>), Err(DataItemError(10))}] }

\* a constructor that keeps the first access of every id only
TriggerCollection_new_dedup(triggers) ==
    LET kept == SelectSeq([i \in 1 .. Len(triggers) |-> <<i, triggers[i]>>],
                          LAMBDA t : \A j \in 1 .. t[1] - 1 : triggers[j][1] # t[2][1])
    IN  IF \E i \in 1 .. Len(triggers) : triggers[i][2].kind = "Bytes"
        THEN [res |-> Err(Error("InvalidTriggerCollection")), value_ids |-> <<>>,
              plc_values |-> <<>>, stored_values |-> <<>>]
        ELSE [res |-> Ok(<<>>),
              value_ids |-> [i \in 1 .. Len(kept) |-> kept[i][2][1]],
              plc_values |-> [i \in 1 .. Len(kept) |-> kept[i][2][2]],
              stored_values |-> [id \in {triggers[i][1] : i \in 1 .. Len(triggers)} |->
                                    [value |-> FALSE, last_known_value |-> FALSE]]]

\* a constructor that looks at the first access only
TriggerCollection_new_first(triggers) ==
    IF triggers # <<>> /\ triggers[1][2].kind = "Bytes"
    THEN [res |-> Err(Error("InvalidTriggerCollection")), value_ids |-> <<>>,
          plc_values |-> <<>>, stored_values |-> <<>>]
    ELSE [res |-> Ok(<<>>),
          value_ids |-> [i \in 1 .. Len(triggers) |-> triggers[i][1]],
          plc_values |-> [i \in 1 .. Len(triggers) |-> triggers[i][2]],
          stored_values |-> [id \in {triggers[i][1] : i \in 1 .. Len(triggers)} |->
                                [value |-> FALSE, last_known_value |-> FALSE]]]

\* TriggerCollection::new: any Bytes access is an error; else every id gets
\* PLCBool::new(false)
TriggerCollection_new(triggers) ==
    IF \E i \in 1 .. Len(triggers) : triggers[i][2].kind = "Bytes"
    THEN [res |-> Err(Error("InvalidTriggerCollection")), value_ids |-> <<>>,
          plc_values |-> <<>>, stored_values |-> <<>>]
    ELSE [res |-> Ok(<<>>),
          value_ids |-> [i \in 1 .. Len(triggers) |-> triggers[i][1]],
          plc_values |-> [i \in 1 .. Len(triggers) |-> triggers[i][2]],
          stored_values |-> [id \in {triggers[i][1] : i \in 1 .. Len(triggers)} |->
                                [value |-> FALSE, last_known_value |-> FALSE]]]

\* an update that forgets the value it replaces
PLCBool_update_forget(bool, new_value) ==
    [value |-> new_value, last_known_value |-> bool.last_known_value]

\* PLCBool::update
PLCBool_update(bool, new_value) ==
    [value |-> new_value, last_known_value |-> bool.value]

\* TriggerCollection::update, the loop over the returned values from
\* index on: an item error returns it with the triggers before it updated
RECURSIVE update_loop(_, _, _, _)
update_loop(stored_values, value_ids, values, index) ==
    IF index > Len(values) THEN [res |-> Ok(<<>>), stored_values |-> stored_values]
    ELSE IF ~values[index].ok
    THEN [res |-> Err(values[index].err), stored_values |-> stored_values]
    ELSE update_loop([stored_values EXCEPT ![value_ids[index]] =
                          PLCBool_update(@, values[index].data[1] > 0)],
                     value_ids, values, index + 1)

\* an update that changes no trigger unless every item was read
TriggerCollection_update_atomic(stored_values, value_ids, read) ==
    IF ~read.ok THEN [res |-> read, stored_values |-> stored_values]
    ELSE IF \E i \in 1 .. Len(read.items) : ~read.items[i].ok
    THEN [res |-> update_loop(stored_values, value_ids, read.items, 1).res,
          stored_values |-> stored_values]
    ELSE update_loop(stored_values, value_ids, read.items, 1)

\* TriggerCollection::update, given what pool.db_read_multi returned: its
\* error is returned by the `?`, else the loop runs over the values
TriggerCollection_update(stored_values, value_ids, read) ==
    IF ~read.ok THEN [res |-> read, stored_values |-> stored_values]
    ELSE update_loop(stored_values, value_ids, read.items, 1)

\* TriggerCollection::positive_flank
positive_flank(stored_values, trigger) ==
    IF trigger \in DOMAIN stored_values
    THEN Some(stored_values[trigger].value /\ ~stored_values[trigger].last_known_value)
    ELSE None

\* TriggerCollection::negative_flank
negative_flank(stored_values, trigger) ==
    IF trigger \in DOMAIN stored_values
    THEN Some(~stored_values[trigger].value /\ stored_values[trigger].last_known_value)
    ELSE None

\* no collection has been asked for yet
TriggerInit ==
    /\ trig = [op |-> "", triggers |-> <<>>, res |-> Ok(<<>>), value_ids |-> <<>>,
               plc_values |-> <<>>, stored_values |-> <<>>, values |-> <<>>,
               before |-> <<>>, updates |-> 0]
    /\ pool = <<>> /\ conns = <<>> /\ tasks = <<>> /\ created = <<>> /\ rx = <<>>
    /\ enc = <<>> /\ stream = <<>>
    /\ closed = FALSE /\ pdu_length = 0 /\ pdu_number = 0 /\ mem = <<>>
    /\ last = <<>> /\ nReq = 0

\* TriggerCollection::new is called with a list of triggers
trigger_new ==
    /\ trig.op = ""
    /\ \E triggers \in TriggerLists :
          LET new == TriggerCollection_new(triggers)
          IN  trig' = [trig EXCEPT !.op = "new", !.triggers = triggers, !.res = new.res,
                                   !.value_ids = new.value_ids,
                                   !.plc_values = new.plc_values,
                                   !.stored_values = new.stored_values]
    /\ UNCHANGED <<clientvars, poolvars, created, rx, enc, stream>>

\* TriggerCollection::update: the bits are read in one db_read_multi, an
\* error of the call is returned, else the triggers are updated in turn
trigger_update ==
    /\ trig.op \in {"new", "update"} /\ trig.value_ids # <<>>
    /\ trig.updates < MaxUpdates
    /\ \E read \in MultiResults(Len(trig.plc_values)) :
          LET done == TriggerCollection_update(trig.stored_values, trig.value_ids, read)
          IN  trig' = [trig EXCEPT !.op = "update", !.res = done.res,
                                   !.stored_values = done.stored_values,
                                   !.values = IF read.ok THEN read.items ELSE <<>>,
                                   !.before = trig.stored_values,
                                   !.updates = @ + 1]
    /\ UNCHANGED <<clientvars, poolvars, created, rx, enc, stream>>

TriggerNext == trigger_new \/ trigger_update

TriggerSpec == TriggerInit /\ [][TriggerNext]_vars


(***************************************************************************)
(* Properties of the trigger collection                                    *)
(***************************************************************************)
\* C23: the construction of a TriggerCollection fails with
\* InvalidTriggerCollection if one of the accesses is a Bytes access,
\* wherever it stands in the list, and succeeds, with every id observed,
\* if all accesses are Bit accesses
C23_BytesRejected ==
    trig.op # "" =>
        IF \E i \in 1 .. Len(trig.triggers) : trig.triggers[i][2].kind = "Bytes"
        THEN trig.res = Err(Error("InvalidTriggerCollection")) /\ trig.op = "new"
        ELSE /\ trig.op = "new" => trig.res.ok
             /\ Len(trig.value_ids) = Len(trig.triggers)
             /\ \A i \in 1 .. Len(trig.triggers) :
                   /\ trig.value_ids[i] = trig.triggers[i][1]
                   /\ trig.plc_values[i] = trig.triggers[i][2]
                   /\ trig.triggers[i][1] \in DOMAIN trig.stored_values

\* C23: a list whose third access is the only Bytes access was refused
C23_Witness ==
    /\ trig.op = "new" /\ Len(trig.triggers) = 3
    /\ trig.triggers[1][2].kind = "Bit" /\ trig.triggers[2][2].kind = "Bit"
    /\ trig.triggers[3][2].kind = "Bytes"
    /\ trig.res = Err(Error("InvalidTriggerCollection"))

\* the ids of the collection differ from one another
DistinctIds ==
    \A i, j \in 1 .. Len(trig.value_ids) :
        trig.value_ids[i] = trig.value_ids[j] => i = j

\* C24: in a collection with distinct ids, after each successful update and
\* for every id, previous is the value that was current before the update,
\* which is false before the first update, and current is the fresh
\* reading (byte > 0); positive_flank is Some(current and not previous),
\* negative_flank is Some(not current and previous), and both are None for
\* an id that is not in the collection
C24_FlanksFollowUpdates ==
    [][(/\ trig'.op = "update" /\ trig'.updates = trig.updates + 1
        /\ trig'.res.ok /\ DistinctIds) =>
          /\ \A i \in 1 .. Len(trig.value_ids) :
                LET id == trig.value_ids[i]
                    previous == trig.stored_values[id].value
                    current == trig'.values[i].data[1] > 0
                IN  /\ trig'.stored_values[id] =
                           [value |-> current, last_known_value |-> previous]
                    /\ trig.op = "new" => ~previous
                    /\ positive_flank(trig'.stored_values, id) = Some(current /\ ~previous)
                    /\ negative_flank(trig'.stored_values, id) = Some(~current /\ previous)
                    /\ (trig.op = "new" /\ current) =>
                           positive_flank(trig'.stored_values, id) = Some(TRUE)
          /\ \A id \in TriggerIds \ {trig.value_ids[i] : i \in 1 .. Len(trig.value_ids)} :
                /\ positive_flank(trig'.stored_values, id) = None
                /\ negative_flank(trig'.stored_values, id) = None]_vars

\* C24: after two successful updates of a collection of two triggers, one
\* has a positive and the other a negative flank, and a third id has none
C24_Witness ==
    /\ trig.op = "update" /\ trig.updates = 2 /\ trig.res.ok
    /\ trig.value_ids = <<"a", "b">>
    /\ trig.before["a"] = [value |-> FALSE, last_known_value |-> FALSE]
    /\ trig.before["b"] = [value |-> TRUE, last_known_value |-> FALSE]
    /\ positive_flank(trig.stored_values, "a") = Some(TRUE)
    /\ negative_flank(trig.stored_values, "b") = Some(TRUE)
    /\ positive_flank(trig.stored_values, "c") = None


(***************************************************************************)
(* Properties of the request planners                                      *)
(***************************************************************************)
ByteReadOps == {"db_read", "mb_read", "i_read", "o_read"}

\* the number of sub-requests and the sub-ranges the split is to give for
\* (s, L) under pdu_length p: one request if L + 18 <= p, else
\* ceil(L / (p - 18)) of p - 18 bytes, the last one holding the remainder
C25_Count(L, p) == IF L + 18 <= p THEN 1 ELSE (L + (p - 18) - 1) \div (p - 18)

C25_Ranges(s, L, p) ==
    [i \in 1 .. C25_Count(L, p) |->
        [start |-> IF L + 18 <= p THEN s ELSE s + (i - 1) * (p - 18),
         length |-> IF L + 18 <= p THEN L
                    ELSE IF i < C25_Count(L, p) THEN p - 18
                    ELSE L - (C25_Count(L, p) - 1) * (p - 18)]]

\* C25: a read of bytes (s, L) is issued as one request if L + 18 <=
\* pdu_length and else as ceil(L / (pdu_length - 18)) sub-requests, number i
\* (from 0) starting at s + i * (pdu_length - 18), each of that length but
\* the last, which holds the remainder; the sub-ranges are not empty, follow
\* one another without gap or overlap, cover [s, s + L) and each expects a
\* response of at most pdu_length bytes; the requests go out in this order,
\* and the read returns the payloads in request order
C25_SplitPlan ==
    (last.op \in ByteReadOps /\ last.reqs # <<>>) =>
        LET access == last.args[1]
            plan == ReadPlan(pdu_length, access)
            ranges == C25_Ranges(access.start, access.length, pdu_length)
        IN  /\ Len(plan) = Len(ranges)
            /\ \A i \in 1 .. Len(plan) :
                  /\ plan[i].kind = "Bytes" /\ plan[i].db_number = access.db_number
                  /\ plan[i].start = ranges[i].start /\ plan[i].length = ranges[i].length
                  /\ plan[i].length >= 1
                  /\ calculate_response_size(<<plan[i]>>) <= pdu_length
                  /\ plan[i].start = IF i = 1 THEN access.start
                                     ELSE plan[i - 1].start + plan[i - 1].length
            /\ plan[Len(plan)].start + plan[Len(plan)].length = access.start + access.length
            /\ Len(last.reqs) <= Len(plan)
            /\ \A i \in 1 .. Len(last.reqs) :
                  last.reqs[i].params = ReadRequest(0, last.area, <<plan[i]>>).params
            /\ last.res.ok =>
                  /\ Len(last.reqs) = Len(plan)
                  /\ access.start < BigStart =>
                        last.res.data = [k \in 1 .. access.length |->
                                            mem[last.area][access.start + k - 1]]

\* C25: a read of MaxLen bytes under pdu_length 22 went out as three
\* requests and returned bytes that differ from one another
C25_Witness ==
    /\ last.op = "db_read" /\ last.res.ok /\ pdu_length = 22
    /\ last.args[1].length = MaxLen /\ Len(last.reqs) = 3
    /\ \E k \in 1 .. MaxLen : last.res.data[k] # last.res.data[1]


\* C26: before each request PDU of a read or write, and of each sub-request
\* of a split read, pdu_ref is advanced by one modulo 2^16: request i of a
\* call carries the session's counter before the call plus i, the counter
\* afterwards is that of the last request, so that consecutive requests of
\* a session carry consecutive references and 65535 is followed by 0; and
\* each response is checked against the reference of its own request: one
\* that carries the reference of the request before is refused
C26_PduRefAdvances ==
    [][/\ last'.op \in DataOps =>
            /\ \A i \in 1 .. Len(last'.reqs) :
                  last'.reqs[i].header.pdu_ref = (last'.pdu_before + i) % U16
            /\ last'.pdu_before = pdu_number
            /\ pdu_number' = (pdu_number + Len(last'.reqs)) % U16
            /\ \A i, j \in 1 .. Len(last'.reqs) :
                  last'.reqs[i].header.pdu_ref = last'.reqs[j].header.pdu_ref => i = j
            /\ (/\ last'.reqs # <<>>
                /\ exchange_buffer(last'.envs[Len(last'.reqs)], <<>>).ok
                /\ last'.envs[Len(last'.reqs)].hdr = "stale") =>
                  last'.res = Err(Error("ResponseDoesNotBelongToCurrentPDU"))
       /\ (Sent /\ last'.op \in DataOps /\ last'.reqs # <<>>) =>
            last'.reqs[1].header.pdu_ref = (LastPdu.header.pdu_ref + 1) % U16
       /\ (last'.op \in DataOps /\ last'.reqs # <<>> /\ pdu_number = U16 - 1) =>
            last'.reqs[1].header.pdu_ref = 0]_vars

\* C26: a read split into three sub-requests on a session whose counter was
\* 65535 carried the references 0, 1 and 2
C26_Witness ==
    /\ last.op = "db_read" /\ last.res.ok /\ last.pdu_before = U16 - 1
    /\ Len(last.reqs) = 3
    /\ last.reqs[1].header.pdu_ref = 0 /\ last.reqs[3].header.pdu_ref = 2
    /\ pdu_number = 2


\* C27: the response of every read and write round trip is checked in this
\* order: the rosctr (AckData for reads, Ack for writes, else
\* RequestNotAcknowledged), then the pdu_ref (else
\* ResponseDoesNotBelongToCurrentPDU), then the error class of the header
\* (not zero gives S7ProtocolError), and only then the parameters and data
\* items; the first check that fails gives the error, so that a response
\* with a wrong rosctr and a wrong pdu_ref gives RequestNotAcknowledged
C27_ValidationOrder ==
    Received =>
        IF LastHeader.rosctr # (IF last.op \in ReadOps THEN RosctrAckData ELSE RosctrAck)
        THEN last.res = Err(Error("RequestNotAcknowledged"))
        ELSE IF LastHeader.pdu_ref # LastPdu.header.pdu_ref
        THEN last.res = Err(Error("ResponseDoesNotBelongToCurrentPDU"))
        ELSE IF LastHeader.error_class # 0
        THEN last.res = Err(Error("S7ProtocolError"))
        ELSE \/ last.res.ok
             \/ last.res.err.tag \in {"DataItemError", "TryFrom"}

\* C27: a write was answered with a wrong rosctr, a wrong pdu_ref and an
\* error class at once, or with two of them, and the first check decided
C27_Witness ==
    /\ last.op = "db_write" /\ Received
    /\ LastHeader.rosctr = RosctrAck
    /\ LastHeader.pdu_ref # LastPdu.header.pdu_ref /\ LastHeader.error_class # 0
    /\ last.res = Err(Error("ResponseDoesNotBelongToCurrentPDU"))


\* the payloads of the n data items a write request carries, in their order
RECURSIVE C28_Payloads(_, _)
C28_Payloads(data, n) ==
    IF n = 0 \/ Len(data) < 4 THEN <<>>
    ELSE <<PlcDataItem(data).payload>> \o C28_Payloads(PlcDataItem(data).rest, n - 1)

ConnectionRequests == { i \in 1 .. Len(created.wire) : created.wire[i].kind = "CR" }

\* C31: the Connection Request sent during connect proposes the TPDU size
\* code 0x0B (2048 bytes) in pdu_size_val, for every PLC family
C31_ProposesCode0B ==
    \A i \in ConnectionRequests :
        /\ created.wire[i].bytes[12] = 192 /\ created.wire[i].bytes[13] = 1
        /\ created.wire[i].bytes[14] = 11

\* C31: a Connection Request went out whose pdu_size_val is 0x0A, the code
\* of 1024 bytes, to a PLC of the 300 family
C31_ProposesCode0A ==
    /\ created.s7_type = "S7300" /\ ConnectionRequests # {}
    /\ \A i \in ConnectionRequests :
          /\ created.wire[i].bytes = IsoControlPDU_build(1024, created.s7_type)
          /\ created.wire[i].bytes[12] = 192 /\ created.wire[i].bytes[13] = 1
          /\ created.wire[i].bytes[14] = 10
          /\ SubSeq(created.wire[i].bytes, 15, 22) = <<193, 2, 1, 0, 194, 2, 3, 2>>


(***************************************************************************)
(* Properties of the pool manager's cached negotiation                     *)
(***************************************************************************)
\* task c comes out of its checkout in this step
CheckedOut(c) == tasks[c].pc = "start" /\ tasks'[c].pc # "start"

\* session s comes into being in this step
Created(s) == ~conns[s].live /\ conns'[s].live

\* C32: when a pooled session turns out to be closed at recycle, the
\* manager's cached pdu_length, max_amq_caller and max_amq_calle are
\* cleared, so that the next newly created session stores and uses freshly
\* negotiated values
C32_ClosedClearsCache ==
    [][/\ \A c \in Tasks :
             (CheckedOut(c) /\ pool.idle # <<>> /\ conns[Head(pool.idle)].closed) =>
                 pool'.s7_info = NoInfo
       /\ \A s \in Tasks :
             (Created(s) /\ pool.s7_info = NoInfo) =>
                 /\ conns'[s].pdu_length = conns'[s].negotiated
                 /\ pool'.s7_info = S7Info_from(conns'[s])]_vars

\* C32: a session whose closed flag is set was taken from the idle queue,
\* passed recycle and is held by an operation, the cache is still filled, and
\* a session created since holds the cached pdu_length and not the one
\* negotiated on its connection
C32_ClosedKeepsCache ==
    \E c, d \in Tasks :
        /\ tasks[c].pc = "holding" /\ ~tasks[c].dialled /\ conns[tasks[c].conn].closed
        /\ pool.s7_info.some
        /\ tasks[d].pc = "holding" /\ tasks[d].dialled
        /\ conns[tasks[d].conn].pdu_length = pool.s7_info.pdu_length
        /\ conns[tasks[d].conn].pdu_length # conns[tasks[d].conn].negotiated

\* C33: every session handed out by the pool plans its requests with the
\* pdu_length and max_amq values that the PLC returned in the negotiation on
\* that session's own connection, also when the PLC returns different values
\* to different connections
C33_OwnNegotiation ==
    \A c \in Tasks :
        tasks[c].pc \in {"holding", "awaiting"} =>
            /\ conns[tasks[c].conn].pdu_length = conns[tasks[c].conn].negotiated
            /\ \E a \in PlcNegotiations({conns[tasks[c].conn].negotiated}) :
                  /\ conns[tasks[c].conn].max_amq_caller = a.max_amq_caller
                  /\ conns[tasks[c].conn].max_amq_calle = a.max_amq_calle

\* C33: an operation has sent its request on a session that plans with
\* pdu_length 44 from the cache while the PLC negotiated 22 on its connection
C33_CachedNegotiation ==
    \E c \in Tasks :
        /\ tasks[c].pc = "awaiting" /\ tasks[c].dialled
        /\ conns[tasks[c].conn].negotiated = 22
        /\ conns[tasks[c].conn].pdu_length = 44
        /\ conns[tasks[c].conn].max_amq_caller = 2
        /\ conns[tasks[c].conn].handshakes = 1

\* C37: without cached parameters the creation of a pooled session shakes
\* hands twice on the same connection, in S7Client::new and once more in
\* connect(), before the session is handed out, and the values of the second
\* handshake are stored and cached; with cached parameters it shakes hands
\* once and the values negotiated are overwritten by the cached ones
C37_HandshakeTwice ==
    [][\A s \in Tasks :
          Created(s) =>
              /\ \E c \in Tasks : tasks[c].pc = "creating" /\ tasks'[c].pc = "holding"
                                  /\ tasks'[c].conn = s
              /\ ~conns'[s].closed
              /\ IF ~pool.s7_info.some
                 THEN /\ conns'[s].handshakes = 2
                      /\ conns'[s].pdu_length = conns'[s].negotiated
                      /\ pool'.s7_info = S7Info_from(conns'[s])
                 ELSE /\ conns'[s].handshakes = 1
                      /\ S7Info_from(conns'[s]) = pool.s7_info
                      /\ pool'.s7_info = pool.s7_info]_vars

\* C37: the pool holds a session that shook hands twice and a session that
\* shook hands once, negotiated 22 and holds the cached 44
C37_Witness ==
    \E s, t \in Tasks :
        /\ conns[s].live /\ conns[s].handshakes = 2 /\ conns[s].pdu_length = 44
        /\ conns[t].live /\ conns[t].handshakes = 1
        /\ conns[t].negotiated = 22 /\ conns[t].pdu_length = 44


\* the send of the exchange failed: the phase is over and nothing was written
SendFailed == rx.phase # "sending" /\ rx.wire = <<>>

\* C35: in exchange_buffer a send that fails with an I/O error before the
\* timeout is not returned to the caller: only a send timeout ends the
\* exchange in the send phase, with DataExchangeTimedOut; after a failed
\* send the receive phase is entered all the same, and the result of the
\* operation is what the receive phase yields
C35_SendErrorSwallowed ==
    [][/\ (rx.phase = "sending" /\ rx'.phase = "done") =>
              rx'.res = Err(Error("DataExchangeTimedOut"))
       /\ (rx.phase = "sending" /\ rx'.phase # "done" /\ rx' # rx) =>
              rx'.phase = "receiving" /\ rx'.res = Err(NoError) /\ rx'.frames = <<>>
       /\ (SendFailed /\ rx.phase = "receiving" /\ rx'.phase = "done") =>
              \/ rx'.res = Err(Error("DataExchangeTimedOut"))
              \/ /\ Len(rx'.frames) = Len(rx.frames) + 1
                 /\ LET step == recv_step(rx.data_buffer, rx'.frames[Len(rx'.frames)])
                    IN  rx'.res = IF step.err # NoError THEN Err(step.err)
                                  ELSE Ok(step.data_buffer)]_vars

\* C35: the send failed, the receive phase ran and read two fragments, and
\* the call returned their payloads
C35_Witness ==
    /\ SendFailed /\ rx.phase = "done"
    /\ Len(rx.frames) = 2 /\ rx.res = Ok(<<1, 2, 3>>)


\* an update has run in this step
Updated == trig'.op = "update" /\ trig'.updates = trig.updates + 1

\* the place of the first item error among the values of the update, or 0
FirstItemError(values) ==
    IF \E k \in 1 .. Len(values) : ~values[k].ok
    THEN CHOOSE k \in 1 .. Len(values) :
             ~values[k].ok /\ \A i \in 1 .. k - 1 : values[i].ok
    ELSE 0

\* C39: TriggerCollection::update is not atomic on item errors: when the
\* multi read succeeds as an operation and the item at place k is an error,
\* update returns that error after the triggers at the places before k were
\* shifted and updated, the triggers from place k on keep their state; when
\* the multi read itself fails, no trigger changes
C39_UpdateNotAtomic ==
    [][(Updated /\ DistinctIds) =>
          IF trig'.values = <<>>
          THEN /\ ~trig'.res.ok
               /\ trig'.stored_values = trig.stored_values
          ELSE LET k == FirstItemError(trig'.values)
               IN  k # 0 =>
                     /\ trig'.res = Err(trig'.values[k].err)
                     /\ \A i \in 1 .. k - 1 :
                           trig'.stored_values[trig.value_ids[i]] =
                               [value |-> trig'.values[i].data[1] > 0,
                                last_known_value |->
                                    trig.stored_values[trig.value_ids[i]].value]
                     /\ \A i \in k .. Len(trig.value_ids) :
                           trig'.stored_values[trig.value_ids[i]] =
                               trig.stored_values[trig.value_ids[i]]]_vars

\* C39: the second update of three triggers that were all true returned the
\* error of the third item: the first went to false with previous true, the
\* second has a negative flank no more, the third still shows the positive
\* flank of the first update
C39_Witness ==
    /\ trig.op = "update" /\ trig.updates = 2 /\ trig.value_ids = <<"a", "b", "d">>
    /\ trig.res = Err(DataItemError(10))
    /\ trig.values[1].ok /\ trig.values[2].ok /\ ~trig.values[3].ok
    /\ trig.stored_values["a"] = [value |-> FALSE, last_known_value |-> TRUE]
    /\ trig.stored_values["b"] = [value |-> TRUE, last_known_value |-> TRUE]
    /\ trig.stored_values["d"] = [value |-> TRUE, last_known_value |-> FALSE]
    /\ positive_flank(trig.stored_values, "d") = Some(TRUE)

\* C40: when the same id is registered twice with two bit accesses, the
\* collection reads both accesses and keeps one stored entry for the id; a
\* successful update applies both readings to it in list order, so that
\* afterwards previous is the reading of the first access and current the
\* reading of the second access of the same poll, and the flanks of the id
\* compare two bits of one poll
C40_DuplicateId ==
    [][(/\ trig'.op \in {"new", "update"} /\ trig'.res.ok /\ trig' # trig
        /\ Len(trig'.triggers) = 2 /\ trig'.triggers[1][1] = trig'.triggers[2][1]) =>
          LET id == trig'.triggers[1][1]
          IN  /\ trig'.value_ids = <<id, id>>
              /\ trig'.plc_values = <<trig'.triggers[1][2], trig'.triggers[2][2]>>
              /\ DOMAIN trig'.stored_values = {id}
              /\ Updated =>
                    LET first == trig'.values[1].data[1] > 0
                        second == trig'.values[2].data[1] > 0
                    IN  /\ trig'.stored_values[id] =
                               [value |-> second, last_known_value |-> first]
                        /\ positive_flank(trig'.stored_values, id) = Some(second /\ ~first)
                        /\ negative_flank(trig'.stored_values, id) = Some(~second /\ first)]_vars

\* C40: the id registered twice was true in both of its bits in the first
\* poll and is read false and true in the second: it shows a positive flank
C40_Witness ==
    /\ trig.op = "update" /\ trig.updates = 2 /\ trig.res.ok
    /\ trig.value_ids = <<"a", "a">>
    /\ trig.before["a"] = [value |-> TRUE, last_known_value |-> TRUE]
    /\ trig.values[1].data[1] = 0 /\ trig.values[2].data[1] > 0
    /\ positive_flank(trig.stored_values, "a") = Some(TRUE)


\* sub-request i of the last call was answered, and its answer passed the
\* checks of the header and gave a data item
SubRequestPassed(i) ==
    /\ exchange_buffer(last.envs[i], <<>>).ok
    /\ ValidateReadHeader(PlcResponse(mem, last.reqs[i], last.envs[i]).header,
                          last.reqs[i].header.pdu_ref) = NoError
    /\ DataItem_try_from(Drop(PlcResponse(mem, last.reqs[i], last.envs[i]).body,
                              ReadWriteParamsLen)).res.ok

\* C38: in a split single read the sub-requests go out one after another,
\* sub-request k+1 only after the response to sub-request k was received and
\* validated; if sub-request k fails no later one is sent, the read returns
\* that error and none of the bytes read before, and pdu_ref has advanced by
\* exactly k
C38_SplitSequential ==
    (last.op \in ByteReadOps /\ last.reqs # <<>>) =>
        LET plan == ReadPlan(pdu_length, last.args[1])
            k == Len(last.reqs)
        IN  /\ k <= Len(plan)
            /\ \A i \in 1 .. k :
                  /\ last.reqs[i].params = ReadRequest(0, last.area, <<plan[i]>>).params
                  /\ last.reqs[i].header.pdu_ref = (last.pdu_before + i) % U16
            /\ \A i \in 1 .. k - 1 : SubRequestPassed(i)
            /\ pdu_number = (last.pdu_before + k) % U16
            /\ IF SubRequestPassed(k)
               THEN k = Len(plan) /\ last.res.ok
               ELSE /\ ~last.res.ok /\ last.res.data = <<>> /\ last.res.items = <<>>
                    /\ last.res.err =
                          IF ~exchange_buffer(last.envs[k], <<>>).ok
                          THEN exchange_buffer(last.envs[k], <<>>).err
                          ELSE IF ValidateReadHeader(
                                      PlcResponse(mem, last.reqs[k], last.envs[k]).header,
                                      last.reqs[k].header.pdu_ref) # NoError
                          THEN ValidateReadHeader(
                                   PlcResponse(mem, last.reqs[k], last.envs[k]).header,
                                   last.reqs[k].header.pdu_ref)
                          ELSE DataItem_try_from(
                                   Drop(PlcResponse(mem, last.reqs[k], last.envs[k]).body,
                                        ReadWriteParamsLen)).res.err

\* C38: a read planned as three sub-requests failed at the second with an
\* error of the header: two requests went out, no byte came back and pdu_ref
\* advanced by two
C38_Witness ==
    /\ last.op = "db_read" /\ ~last.closed_before
    /\ Len(ReadPlan(pdu_length, last.args[1])) = 3 /\ Len(last.reqs) = 2
    /\ SubRequestPassed(1)
    /\ last.res = Err(Error("S7ProtocolError"))
    /\ pdu_number = (last.pdu_before + 2) % U16


(***************************************************************************)
(* The address of a request item over the whole u32 range of start.        *)
(* A u32 is held as its two 16-bit halves, [hi, lo] = hi * 2^16 + lo; an   *)
(* arithmetic step gives the wrapped value and whether it overflowed.      *)
(* Rust panics on an overflow when the build has overflow checks (the      *)
(* default of a dev build) and wraps when it has none (the default of a    *)
(* release build); no profile is fixed by the sources.                     *)
(***************************************************************************)
\* x * 8 in u32
u32_mul8(x) ==
    LET lo8 == x.lo * 8
        hi8 == x.hi * 8 + lo8 \div U16
    IN  [value |-> [hi |-> hi8 % U16, lo |-> lo8 % U16], overflow |-> hi8 >= U16]

\* x + u32::from(b) in u32, b a u8
u32_add(x, b) ==
    LET lo1 == x.lo + b
        hi1 == x.hi + lo1 \div U16
    IN  [value |-> [hi |-> hi1 % U16, lo |-> lo1 % U16], overflow |-> hi1 >= U16]

\* S7ReadAccess::start and S7WriteAccess::start in u32:
\* *start for Bytes, byte * 8 + u32::from(*bit) for Bit
S7Access_start_u32(a) ==
    IF a.kind = "Bytes"
    THEN [value |-> a.start, overflow |-> FALSE]
    ELSE LET times8 == u32_mul8(a.start)
             sum == u32_add(times8.value, a.bit)
         IN  [value |-> sum.value, overflow |-> times8.overflow \/ sum.overflow]

\* the address computed by RequestItem::build in u32: start for a bit, a
\* counter or a timer, start * 8 otherwise
RequestItem_address_u32(start, data_type) ==
    IF data_type \in {S7BIT, S7COUNTER, S7TIMER}
    THEN [value |-> start, overflow |-> FALSE]
    ELSE u32_mul8(start)

\* RequestItem::address_to_bytes on a u32: bytes 2, 1 and 0 of the value
address_to_bytes_u32(address) ==
    <<address.hi % U8, address.lo \div U8, address.lo % U8>>

\* the halves of the start values: around 2^21 (where the address passes 24
\* bits), around 2^29 (where start * 8 passes 32 bits) and the ends
AddrHis == {0, 1, 31, 32, 255, 256, 8191, 8192, 32767, 32768, 65535}

AddrLos == {0, 1, 8191, 8192, 65535}

AddrStarts == {[hi |-> h, lo |-> l] : h \in AddrHis, l \in AddrLos}

AddrBits == {0, 3, 7}

AddrAccesses ==
    {[kind |-> "Bytes", start |-> s, bit |-> 0] : s \in AddrStarts}
        \cup {[kind |-> "Bit", start |-> s, bit |-> b] : s \in AddrStarts, b \in AddrBits}

\* the item of one access is built: start(), then RequestItem::build, then
\* the three address bytes of the item on the wire; the first overflow ends
\* the call in a panic when the build checks overflows
encode_item(op, a, overflow_checks) ==
    LET start == S7Access_start_u32(a)
        data_type == IF a.kind = "Bytes" THEN S7BYTE ELSE S7BIT
        address == RequestItem_address_u32(start.value, data_type)
        overflow == start.overflow \/ address.overflow
        panicked == overflow_checks /\ overflow
    IN  enc' = [op |-> op, access |-> a, overflow_checks |-> overflow_checks,
                overflow |-> overflow, panicked |-> panicked,
                bytes |-> IF panicked THEN <<>> ELSE address_to_bytes_u32(address.value)]

AddrInit ==
    /\ enc = [op |-> "", access |-> [kind |-> "Bytes", start |-> [hi |-> 0, lo |-> 0], bit |-> 0],
              overflow_checks |-> FALSE, overflow |-> FALSE, panicked |-> FALSE,
              bytes |-> <<>>]
    /\ pool = <<>> /\ conns = <<>> /\ tasks = <<>> /\ created = <<>> /\ rx = <<>>
    /\ trig = <<>> /\ stream = <<>>
    /\ closed = FALSE /\ pdu_length = 0 /\ pdu_number = 0 /\ mem = <<>>
    /\ last = <<>> /\ nReq = 0

\* the item of a read access (S7ReadAccess::start, mod.rs 67-72)
encode_read_item ==
    /\ \E a \in AddrAccesses, overflow_checks \in BOOLEAN :
          encode_item("read", a, overflow_checks)
    /\ UNCHANGED <<clientvars, poolvars, created, rx, trig, stream>>

\* the item of a write access (S7WriteAccess::start, mod.rs 148-153)
encode_write_item ==
    /\ \E a \in AddrAccesses, overflow_checks \in BOOLEAN :
          encode_item("write", a, overflow_checks)
    /\ UNCHANGED <<clientvars, poolvars, created, rx, trig, stream>>

AddrNext == encode_read_item \/ encode_write_item

AddrSpec == AddrInit /\ [][AddrNext]_vars

\* the address of an access as the claim gives it, modulo 2^24: start * 8
\* (+ bit) with start reduced modulo 2^21, which keeps the value below 2^24
WireAddress24(a) ==
    ((a.start.hi % 32) * U16 + a.start.lo) * 8 + (IF a.kind = "Bit" THEN a.bit ELSE 0)

Encoded == enc.op # ""

\* C34: for every start of the u32 range the item of a Bit access carries
\* byte * 8 + bit and the item of a Bytes access start * 8, written as the
\* three big-endian bytes of that value modulo 2^24
C34_AddressEncoded ==
    Encoded => /\ ~enc.panicked
               /\ enc.bytes = address_to_bytes(WireAddress24(enc.access))

\* start = 2^29 in a build that checks overflows: start * 8 does not fit
\* u32 and no item is built
C34_OverflowPanics ==
    /\ Encoded /\ enc.access.kind = "Bytes"
    /\ enc.access.start = [hi |-> 8192, lo |-> 0]
    /\ enc.overflow_checks /\ enc.panicked /\ enc.bytes = <<>>

\* what does hold: whenever an item is built, its three bytes are the
\* address modulo 2^24, in a wrapping build for every start
C34_WrappedEncoded ==
    (Encoded /\ ~enc.panicked) =>
        enc.bytes = address_to_bytes(WireAddress24(enc.access))

\* below 2^28 the u32 arithmetic and the integer definitions used by the
\* session's operations give the same address bytes
C34_SameAsSession ==
    (Encoded /\ enc.access.start.hi < 4096) =>
        LET a == [kind |-> enc.access.kind, bit |-> enc.access.bit,
                  start |-> enc.access.start.hi * U16 + enc.access.start.lo]
            item == RequestItem_build(AreaDataBlock, 1, S7ReadAccess_start(a),
                                      S7ReadAccess_data_type(a), 1)
        IN  /\ ~enc.overflow
            /\ enc.bytes = address_to_bytes(item.address)


(***************************************************************************)
(* A session whose byte stream holds responses nobody has read.            *)
(* exchange_buffer writes the request and then reads one response from the *)
(* stream (tcp.rs 181-197), whichever request that response answers; the   *)
(* PLC answers every request it receives, so the response to the request   *)
(* just sent queues up behind whatever is still unread.                    *)
(***************************************************************************)
\* the response the PLC sends to a request: its reference and its kind
ResponseFrame(req) ==
    [pdu_ref |-> req.header.pdu_ref, write |-> req.params[1] = WRITE_OPERATION]

\* a receiver that discards all that is unread when an exchange ends
frames_left_flush(unread, reqs) == <<>>

\* the unread responses after an operation that sent reqs: every request
\* adds its response at the end, every exchange takes one from the front
frames_left(unread, reqs) ==
    Drop(unread \o [i \in 1 .. Len(reqs) |-> ResponseFrame(reqs[i])], Len(reqs))

\* what the next exchange of the session reads: the response to its own
\* request when nothing is unread, else the oldest unread response, whose
\* rosctr is that of the request it answers
StreamEnv(unread, is_write) ==
    IF unread = <<>> THEN OkEnv
    ELSE IF Head(unread).write = is_write THEN Env("ok", "ok", "stale", TRUE)
    ELSE Env("ok", "ok", "stale_other", TRUE)

StreamEnvs(is_write) == [i \in 1 .. 3 |-> StreamEnv(stream, is_write)]

StreamReads == {ReadBytes(1, 1, 1), ReadBytes(1, 1, MaxLen)}

StreamWrites == {WriteBytes(1, 1, <<8>>), WriteBytes(1, 1, <<0>>)}

\* the session is open after its handshake; nothing is unread, or the
\* response to the request before (a read or a write) is
StreamInit ==
    /\ closed = FALSE
    /\ pdu_length \in PduLengths
    /\ pdu_number \in {1, U16 - 1}
    /\ mem = [a \in Areas |-> [i \in PlcAddrs |-> 0]]
    /\ last = [op |-> "new", area |-> 0, args |-> <<>>, res |-> Ok(<<>>), reqs |-> <<>>,
               envs |-> <<>>, closed_before |-> TRUE, pdu_before |-> 0]
    /\ nReq = 0
    /\ stream \in {<<>>} \cup {<<[pdu_ref |-> pdu_number, write |-> w]>> : w \in BOOLEAN}
    /\ pool = <<>> /\ conns = <<>> /\ tasks = <<>> /\ created = <<>> /\ rx = <<>>
    /\ trig = <<>> /\ enc = <<>>

StreamReturn(op, args, envs, out) ==
    /\ Returned(op, AreaDataBlock, args, envs, out)
    /\ stream' = frames_left(stream, out.reqs)
    /\ UNCHANGED <<pdu_length, poolvars, created, rx, trig, enc>>

stream_db_read ==
    \E access \in StreamReads :
        /\ nReq < MaxReq
        /\ StreamReturn("db_read", <<access>>, StreamEnvs(FALSE),
                        ReadBytesOp(AreaDataBlock, access, StreamEnvs(FALSE)))

stream_db_read_bit ==
    /\ nReq < MaxReq
    /\ StreamReturn("db_read_bit", <<ReadBit(1, 0, 3)>>, StreamEnvs(FALSE),
                    db_read_bit_op(ReadBit(1, 0, 3), StreamEnvs(FALSE)))

stream_db_write ==
    \E access \in StreamWrites :
        /\ nReq < MaxReq
        /\ StreamReturn("db_write", <<access>>, <<StreamEnv(stream, TRUE)>>,
                        WriteBytesOp(AreaDataBlock, access, StreamEnv(stream, TRUE)))

stream_db_write_bit ==
    \E value \in BOOLEAN :
        /\ nReq < MaxReq
        /\ StreamReturn("db_write_bit", <<WriteBit(1, 0, 3, value)>>,
                        <<StreamEnv(stream, TRUE)>>,
                        db_write_bit_op(WriteBit(1, 0, 3, value), StreamEnv(stream, TRUE)))

StreamNext == stream_db_read \/ stream_db_read_bit \/ stream_db_write \/ stream_db_write_bit

StreamSpec == StreamInit /\ [][StreamNext]_vars

\* a step in which an operation is called while a response is unread
StaleAhead == stream # <<>> /\ last'.reqs # <<>>

\* what every such operation does, whatever it reads: it sends one request,
\* reads the response of the request before, leaves the session open and
\* its own response as the one unread response
ReadsPredecessor ==
    /\ Len(last'.reqs) = 1
    /\ Head(stream).pdu_ref = (last'.reqs[1].header.pdu_ref + U16 - 1) % U16
    /\ PlcResponse(mem, last'.reqs[1], last'.envs[1]).header.rosctr
          = (IF Head(stream).write THEN RosctrAck ELSE RosctrAckData)
    /\ ~last'.res.ok
    /\ ~closed'
    /\ stream' = <<ResponseFrame(last'.reqs[1])>>

\* C36 (as stated): with a stale response ahead the operation fails with
\* ResponseDoesNotBelongToCurrentPDU, the session stays open and the
\* operation's own response stays unread, so every later operation reads
\* the response of its predecessor and fails in the same way
C36_NeverResynchronises ==
    [][ StaleAhead =>
          /\ ReadsPredecessor
          /\ last'.res = Err(Error("ResponseDoesNotBelongToCurrentPDU")) ]_vars

\* C36 (amended): with a stale response ahead the operation fails, the
\* session stays open and the operation's own response stays unread, so
\* every later operation reads the response of its predecessor and fails
\* too; the error is ResponseDoesNotBelongToCurrentPDU when the response
\* read answers a request of the operation's kind (read or write) and
\* RequestNotAcknowledged when it answers one of the other kind
C36_NeverResynchronisesByKind ==
    [][ StaleAhead =>
          /\ ReadsPredecessor
          /\ last'.res = Err(IF Head(stream).write = (last'.reqs[1].params[1] = WRITE_OPERATION)
                             THEN Error("ResponseDoesNotBelongToCurrentPDU")
                             ELSE Error("RequestNotAcknowledged")) ]_vars

\* three operations in a row have failed on a session that is still open:
\* the third, a read, has read the response to the second, a write
C36_Witness ==
    /\ nReq = 3 /\ ~closed /\ last.op = "db_read"
    /\ last.res = Err(Error("RequestNotAcknowledged"))
    /\ last.envs[1].hdr = "stale_other"
    /\ stream = <<ResponseFrame(last.reqs[1])>>

====
